---- MODULE Spec2Model ----
(***************************************************************************)
(* A model of the i8080 crate: the CPU (src/src/cpu.rs), the 64K memory    *)
(* (src/src/memory.rs) and the Intel8080 system (src/src/lib.rs).          *)
(*                                                                         *)
(* The machine is the pair (cpu, memory).  The two entry points of the     *)
(* crate, Intel8080::fetch_execute_instruction ("step") and                *)
(* Intel8080::interrupt, are the actions Step and Interrupt.  The decoder  *)
(* and the executor are operators that turn a machine into a machine.      *)
(***************************************************************************)
EXTENDS Integers, Sequences, FiniteSets, TLC

VARIABLES
    cpu,              \* Intel8080.cpu: the record of the fields of struct Cpu
    memory,           \* Intel8080.memory: the bytes that are not zero, by address
    overflow_checks,  \* the build: TRUE when integer overflow panics (debug)
    irq_instructions, \* the instructions the host may pass to interrupt()
    calls_left,       \* how many more calls the host makes (bounds the run)
    last,             \* the last call: which, its argument, what it returned
    prev              \* the machine as it was just before the last call

vars == <<cpu, memory, overflow_checks, irq_instructions, calls_left, last, prev>>

(***************************************************************************)
(* Integer helpers: the fixed-width arithmetic of u8 and u16.              *)
(***************************************************************************)
Byte == 0..255

RECURSIVE BitAnd(_, _)
BitAnd(x, y) ==
    IF x = 0 \/ y = 0 THEN 0
    ELSE (IF x % 2 = 1 /\ y % 2 = 1 THEN 1 ELSE 0) + 2 * BitAnd(x \div 2, y \div 2)

RECURSIVE BitOr(_, _)
BitOr(x, y) ==
    IF x = 0 THEN y
    ELSE IF y = 0 THEN x
    ELSE (IF x % 2 = 1 \/ y % 2 = 1 THEN 1 ELSE 0) + 2 * BitOr(x \div 2, y \div 2)

RECURSIVE BitXor(_, _)
BitXor(x, y) ==
    IF x = 0 THEN y
    ELSE IF y = 0 THEN x
    ELSE (IF x % 2 # y % 2 THEN 1 ELSE 0) + 2 * BitXor(x \div 2, y \div 2)

\* !x on a u8
BitNot8(x) == 255 - x

RECURSIVE count_ones(_)
count_ones(x) == IF x = 0 THEN 0 ELSE (x % 2) + count_ones(x \div 2)

\* an addition on u16 that stops at 0xFFFF
SaturatingAdd16(x, n) == IF x + n > 65535 THEN 65535 ELSE x + n

wrapping_add8(x, n) == (x + n) % 256
wrapping_add16(x, n) == (x + n) % 65536
wrapping_sub16(x, n) == (x + 65536 - n) % 65536

\* x << 1 and x >> 1 on a u8: the bit shifted out is dropped
shl1(x) == (2 * x) % 256
shr1(x) == x \div 2
rotate_left1(x) == ((2 * x) % 256) + (x \div 128)

\* a rotation to the right that drops bit 0
RotateRightDroppingBit(x) == x \div 2

\* u8::rotate_right(1)
rotate_right1(x) == (x \div 2) + 128 * (x % 2)

\* u16::from_le_bytes([lo, hi])
from_le_bytes(lo, hi) == lo + 256 * hi
\* ((w & 0xFF00) >> 8) as u8 and (w & 0x00FF) as u8
high_byte(w) == BitAnd(w, 65280) \div 256
low_byte(w) == BitAnd(w, 255)

(***************************************************************************)
(* ConditionFlags: a bitflags! struct over u8.                             *)
(***************************************************************************)
CARRY == 1
ALWAYS_ONE == 2
PARITY == 4
AUX_CARRY == 16
ZERO == 64
SIGN == 128

\* ConditionFlags::all().bits(): the union of the declared flags
AllFlagBits ==
    BitOr(CARRY, BitOr(ALWAYS_ONE, BitOr(PARITY, BitOr(AUX_CARRY, BitOr(ZERO, SIGN)))))

contains(flags, flag) == BitAnd(flags, flag) = flag
insert(flags, flag) == BitOr(flags, flag)
remove(flags, flag) == BitAnd(flags, BitNot8(flag))
toggle(flags, flag) == BitXor(flags, flag)
set(flags, flag, value) == IF value THEN insert(flags, flag) ELSE remove(flags, flag)
\* a faulty from_bits_truncate: the bits that are no flag are kept
from_bits_retain(bits) == bits
from_bits_truncate(bits) == BitAnd(bits, AllFlagBits)

\* impl Default for ConditionFlags
DefaultConditionFlags == ALWAYS_ONE

(***************************************************************************)
(* Memory: [u8; 65536], zero when created.  The model keeps the bytes that *)
(* are not zero, so that two memories are equal iff their 65,536 bytes are.*)
(***************************************************************************)
MEMORY_SIZE == 65536

\* Memory::new
NewMemory == [address \in {} |-> 0]

\* impl Index<u16> for Memory
MemRead(mem, address) == IF address \in DOMAIN mem THEN mem[address] ELSE 0

\* impl IndexMut<u16> for Memory, assigned through
MemWrite(mem, address, byte) ==
    IF byte = 0
    THEN [x \in (DOMAIN mem) \ {address} |-> mem[x]]
    ELSE [x \in (DOMAIN mem) \cup {address} |-> IF x = address THEN byte ELSE mem[x]]

(***************************************************************************)
(* Cpu, and its default value.                                             *)
(***************************************************************************)
Disabled == "Disabled"
Enabling == "Enabling"
Enabled  == "Enabled"
Interruptable == {Disabled, Enabling, Enabled}

\* a default Cpu whose latch is Enabled
DefaultCpuEnabled ==
    [pc |-> 0, sp |-> 0, b |-> 0, c |-> 0, d |-> 0, e |-> 0, h |-> 0, l |-> 0,
     a |-> 0, condition_flags |-> DefaultConditionFlags,
     interruptable |-> Enabled, is_halted |-> FALSE]

\* #[derive(Default)] struct Cpu
DefaultCpu ==
    [pc |-> 0, sp |-> 0, b |-> 0, c |-> 0, d |-> 0, e |-> 0, h |-> 0, l |-> 0,
     a |-> 0, condition_flags |-> DefaultConditionFlags,
     interruptable |-> Disabled, is_halted |-> FALSE]

\* register pairs, as the executor forms them: u16::from_le_bytes([self.l, self.h])
HL(cp) == from_le_bytes(cp.l, cp.h)
BC(cp) == from_le_bytes(cp.c, cp.b)
DE(cp) == from_le_bytes(cp.e, cp.d)

\* The register an opcode names in three bits: B C D E H L (M) A
RegGet(cp, r) ==
    CASE r = 0 -> cp.b [] r = 1 -> cp.c [] r = 2 -> cp.d [] r = 3 -> cp.e
      [] r = 4 -> cp.h [] r = 5 -> cp.l [] r = 7 -> cp.a

RegSet(cp, r, v) ==
    CASE r = 0 -> [cp EXCEPT !.b = v] [] r = 1 -> [cp EXCEPT !.c = v]
      [] r = 2 -> [cp EXCEPT !.d = v] [] r = 3 -> [cp EXCEPT !.e = v]
      [] r = 4 -> [cp EXCEPT !.h = v] [] r = 5 -> [cp EXCEPT !.l = v]
      [] r = 7 -> [cp EXCEPT !.a = v]

\* The operand of "op r" / "op M": register r, or memory[HL] when r is M
Operand(cp, mem, r) == IF r = 6 THEN MemRead(mem, HL(cp)) ELSE RegGet(cp, r)

(***************************************************************************)
(* The flag engine: the private helpers of impl Cpu.                       *)
(***************************************************************************)
\* the three flags with Parity set on an odd number of ones
UpdateOddParityZeroSign(cp, result) ==
    [cp EXCEPT !.condition_flags =
        set(set(set(@, PARITY, count_ones(result) % 2 = 1),
                ZERO, result = 0),
            SIGN, BitAnd(result, \h80) > 0)]

\* Cpu::update_parity_zero_sign_flags
update_parity_zero_sign_flags(cp, result) ==
    LET f1 == set(cp.condition_flags, PARITY, count_ones(result) % 2 = 0)
        f2 == set(f1, ZERO, result = 0)
        f3 == set(f2, SIGN, BitAnd(result, \h80) > 0)
    IN  [cp EXCEPT !.condition_flags = f3]

\* Cpu::add, its last two statements: Parity, Zero and Sign are written from
\* the result, and (result, carry out) is returned
AddResult(cp, result, carry_out) ==
    [cpu |-> update_parity_zero_sign_flags(cp, result),
     result |-> result, carry_out |-> carry_out]

\* add() comparing with '>' whether or not a carry comes in
AddStrict(cp, x, y, carry_in) ==
    AddResult(
        [cp EXCEPT !.condition_flags =
            set(@, AUX_CARRY, BitAnd(x, \h0F) + BitAnd(y, \h0F) > \h0F)],
        IF carry_in THEN wrapping_add8(wrapping_add8(x, y), 1) ELSE wrapping_add8(x, y),
        x > \hFF - y)

\* Cpu::add: the flags but Carry are written, the carry is returned
add(cp, x, y, carry_in) ==
    AddResult(
        [cp EXCEPT !.condition_flags =
            set(@, AUX_CARRY,
                IF carry_in THEN BitAnd(x, \h0F) + BitAnd(y, \h0F) >= \h0F
                            ELSE BitAnd(x, \h0F) + BitAnd(y, \h0F) > \h0F)],
        IF carry_in THEN wrapping_add8(wrapping_add8(x, y), 1) ELSE wrapping_add8(x, y),
        IF carry_in THEN x >= \hFF - y ELSE x > \hFF - y)

\* Cpu::subtract, its last two statements: borrow_out = !carry_out
Borrow(r) == [cpu |-> r.cpu, result |-> r.result, borrow_out |-> ~r.carry_out]

\* subtract() handing the borrow to add() as its carry, not complemented
SubtractCarryIn(cp, x, y, borrow_in) == Borrow(add(cp, x, BitNot8(y), borrow_in))

\* Cpu::subtract
subtract(cp, x, y, borrow_in) == Borrow(add(cp, x, BitNot8(y), ~borrow_in))

\* The last three statements of logical_and, logical_or and logical_xor:
\* Parity, Zero and Sign are written from the result, then self.a = result
LogicalResult(cp, result) ==
    [update_parity_zero_sign_flags(cp, result) EXCEPT !.a = result]

\* logical_and() clearing Auxiliary Carry, as the 1976 manual has it
LogicalAndClearingAux(cp, byte) ==
    LogicalResult([cp EXCEPT !.condition_flags = remove(remove(@, CARRY), AUX_CARRY)],
                  BitAnd(cp.a, byte))

\* Cpu::logical_and
logical_and(cp, byte) ==
    LogicalResult(
        [cp EXCEPT !.condition_flags =
            set(remove(@, CARRY), AUX_CARRY, BitAnd(BitOr(cp.a, byte), \h08) > 0)],
        BitAnd(cp.a, byte))

\* Cpu::logical_or
logical_or(cp, byte) ==
    LogicalResult([cp EXCEPT !.condition_flags = remove(remove(@, CARRY), AUX_CARRY)],
                  BitOr(cp.a, byte))

\* logical_xor() leaving Auxiliary Carry as it was
LogicalXorKeepingAux(cp, byte) ==
    LogicalResult([cp EXCEPT !.condition_flags = remove(@, CARRY)],
                  BitXor(cp.a, byte))

\* Cpu::logical_xor
logical_xor(cp, byte) ==
    LogicalResult([cp EXCEPT !.condition_flags = remove(remove(@, CARRY), AUX_CARRY)],
                  BitXor(cp.a, byte))

(***************************************************************************)
(* Control transfer helpers.  An Instruction is <<opcode, byte, byte>>:    *)
(* instruction[1] here is instruction[0] in the source.                    *)
(***************************************************************************)
\* Cpu::call
call(cp, mem, instruction) ==
    [cpu |-> [cp EXCEPT !.sp = wrapping_sub16(cp.sp, 2),
                        !.pc = from_le_bytes(instruction[2], instruction[3])],
     memory |-> MemWrite(MemWrite(mem, wrapping_sub16(cp.sp, 1), high_byte(cp.pc)),
                         wrapping_sub16(cp.sp, 2), low_byte(cp.pc))]

\* restart() jumping to the number of the RST, not to eight times it
RestartAtNumber(cp, mem, opcode) ==
    [cpu |-> [cp EXCEPT !.sp = wrapping_sub16(cp.sp, 2),
                        !.pc = BitAnd(opcode, \h38) \div 8],
     memory |-> MemWrite(MemWrite(mem, wrapping_sub16(cp.sp, 1), high_byte(cp.pc)),
                         wrapping_sub16(cp.sp, 2), low_byte(cp.pc))]

\* Cpu::restart
restart(cp, mem, opcode) ==
    [cpu |-> [cp EXCEPT !.sp = wrapping_sub16(cp.sp, 2),
                        !.pc = BitAnd(opcode, \h38)],
     memory |-> MemWrite(MemWrite(mem, wrapping_sub16(cp.sp, 1), high_byte(cp.pc)),
                         wrapping_sub16(cp.sp, 2), low_byte(cp.pc))]

\* ret() taking the high byte of PC from SP and the low byte from SP+1
RetHighFirst(cp, mem) ==
    [cp EXCEPT !.pc = from_le_bytes(MemRead(mem, wrapping_add16(cp.sp, 1)),
                                    MemRead(mem, cp.sp)),
               !.sp = wrapping_add16(cp.sp, 2)]

\* Cpu::ret
ret(cp, mem) ==
    [cp EXCEPT !.pc = from_le_bytes(MemRead(mem, cp.sp),
                                    MemRead(mem, wrapping_add16(cp.sp, 1))),
               !.sp = wrapping_add16(cp.sp, 2)]

\* the flag tests with PO and PE exchanged
ConditionParityExchanged(cp, ccc) ==
    CASE ccc = 0 -> ~contains(cp.condition_flags, ZERO)
      [] ccc = 1 -> contains(cp.condition_flags, ZERO)
      [] ccc = 2 -> ~contains(cp.condition_flags, CARRY)
      [] ccc = 3 -> contains(cp.condition_flags, CARRY)
      [] ccc = 4 -> contains(cp.condition_flags, PARITY)
      [] ccc = 5 -> ~contains(cp.condition_flags, PARITY)
      [] ccc = 6 -> ~contains(cp.condition_flags, SIGN)
      [] ccc = 7 -> contains(cp.condition_flags, SIGN)

\* The flag test of a conditional jump, call or return, from bits 3-5 of the
\* opcode: NZ Z NC C PO PE P M
Condition(cp, ccc) ==
    CASE ccc = 0 -> ~contains(cp.condition_flags, ZERO)
      [] ccc = 1 -> contains(cp.condition_flags, ZERO)
      [] ccc = 2 -> ~contains(cp.condition_flags, CARRY)
      [] ccc = 3 -> contains(cp.condition_flags, CARRY)
      [] ccc = 4 -> ~contains(cp.condition_flags, PARITY)
      [] ccc = 5 -> contains(cp.condition_flags, PARITY)
      [] ccc = 6 -> ~contains(cp.condition_flags, SIGN)
      [] ccc = 7 -> contains(cp.condition_flags, SIGN)

(***************************************************************************)
(* Cpu::execute_instruction: one dispatch on instruction[0].  The source   *)
(* spells out 256 arms; the arms of one family differ only in the register *)
(* the opcode names, and the model states each family once.  Every         *)
(* operator below returns the machine after the arm and its state count.   *)
(***************************************************************************)
Done(cp, mem, n) == [cpu |-> cp, memory |-> mem, states |-> n]

\* the arm took the machine m = [cpu, memory] to its end in n states
DoneBoth(m, n) == [cpu |-> m.cpu, memory |-> m.memory, states |-> n]

\* A register pair by the two bits of the opcode: BC DE HL SP
PairGet(cp, rp) ==
    CASE rp = 0 -> BC(cp) [] rp = 1 -> DE(cp) [] rp = 2 -> HL(cp) [] rp = 3 -> cp.sp

PairSet(cp, rp, w) ==
    CASE rp = 0 -> [cp EXCEPT !.b = high_byte(w), !.c = low_byte(w)]
      [] rp = 1 -> [cp EXCEPT !.d = high_byte(w), !.e = low_byte(w)]
      [] rp = 2 -> [cp EXCEPT !.h = high_byte(w), !.l = low_byte(w)]
      [] rp = 3 -> [cp EXCEPT !.sp = w]

\* after add(): Carry := carry_out, A := result
StoreSum(r) ==
    [r.cpu EXCEPT !.condition_flags = set(@, CARRY, r.carry_out), !.a = r.result]

\* after subtract(): Carry := borrow_out, A := result
StoreDifference(r) ==
    [r.cpu EXCEPT !.condition_flags = set(@, CARRY, r.borrow_out), !.a = r.result]

\* a comparison that stores the difference in A
StoreComparisonInA(r) ==
    [r.cpu EXCEPT !.condition_flags = set(@, CARRY, r.borrow_out), !.a = r.result]

\* after subtract(): Carry := borrow_out, the result is dropped
StoreComparison(r) ==
    [r.cpu EXCEPT !.condition_flags = set(@, CARRY, r.borrow_out)]

\* ADD/ADC/ADI/ACI: A := A + y (+ Carry when with_carry)
AluAdd(cp, y, with_carry) ==
    StoreSum(add(cp, cp.a, y, with_carry /\ contains(cp.condition_flags, CARRY)))

\* SUB/SBB/SUI/SBI: A := A - y (- Carry when with_borrow)
AluSub(cp, y, with_borrow) ==
    StoreDifference(
        subtract(cp, cp.a, y, with_borrow /\ contains(cp.condition_flags, CARRY)))

\* CMP/CPI: the subtraction without the store
AluCmp(cp, y) == StoreComparison(subtract(cp, cp.a, y, FALSE))

\* The eight accumulator operations, by bits 3-5 of the opcode:
\* ADD ADC SUB SBB ANA XRA ORA CMP
Alu(cp, aaa, y) ==
    CASE aaa = 0 -> AluAdd(cp, y, FALSE)
      [] aaa = 1 -> AluAdd(cp, y, TRUE)
      [] aaa = 2 -> AluSub(cp, y, FALSE)
      [] aaa = 3 -> AluSub(cp, y, TRUE)
      [] aaa = 4 -> logical_and(cp, y)
      [] aaa = 5 -> logical_xor(cp, y)
      [] aaa = 6 -> logical_or(cp, y)
      [] aaa = 7 -> AluCmp(cp, y)

\* 0x80..0xBF: op r (4 states) and op M (7 states)
ExecAluRegister(cp, mem, op) ==
    Done(Alu(cp, (op \div 8) % 8, Operand(cp, mem, op % 8)), mem,
         IF op % 8 = 6 THEN 7 ELSE 4)

\* ADI ACI SUI SBI ANI XRI ORI CPI: op immediate (7 states)
ExecAluImmediate(cp, mem, instruction) ==
    Done(Alu(cp, (instruction[1] \div 8) % 8, instruction[2]), mem, 7)

\* 0x40..0x7F: MOV r,r (5), MOV r,M and MOV M,r (7), and HLT at 0x76 (7)
ExecMov(cp, mem, op) ==
    LET ddd == (op \div 8) % 8
        sss == op % 8
    IN  IF op = \h76 THEN Done([cp EXCEPT !.is_halted = TRUE], mem, 7)
        ELSE IF sss = 6 THEN Done(RegSet(cp, ddd, MemRead(mem, HL(cp))), mem, 7)
        ELSE IF ddd = 6 THEN Done(cp, MemWrite(mem, HL(cp), RegGet(cp, sss)), 7)
        ELSE IF ddd = sss THEN Done(cp, mem, 5)
        ELSE Done(RegSet(cp, ddd, RegGet(cp, sss)), mem, 5)

\* after add() or subtract() for INR/DCR: the result goes to register ddd
\* (5 states) or to memory[HL] (10 states); the carry returned is dropped
StoreCount(r, mem, ddd, address) ==
    IF ddd = 6 THEN Done(r.cpu, MemWrite(mem, address, r.result), 10)
    ELSE Done(RegSet(r.cpu, ddd, r.result), mem, 5)

\* the DCR A arm writing Sign from A before the decrement
StoreCountASignBefore(r, mem) ==
    Done([r.cpu EXCEPT !.condition_flags = set(@, SIGN, BitAnd(r.cpu.a, \h80) > 0),
                       !.a = r.result], mem, 5)

\* the DCR A arm: Sign is written once more from the result before the store
StoreCountA(r, mem) ==
    Done([r.cpu EXCEPT !.condition_flags = set(@, SIGN, BitAnd(r.result, \h80) > 0),
                       !.a = r.result], mem, 5)

\* INR writing Carry from the carry add() returns
CountCarrying(r) ==
    [r EXCEPT !.cpu.condition_flags = set(@, CARRY, r.carry_out)]

ExecInrCarrying(cp, mem, op) ==
    StoreCount(CountCarrying(add(cp, Operand(cp, mem, (op \div 8) % 8), 1, FALSE)),
               mem, (op \div 8) % 8, HL(cp))

\* INR r and INR M
ExecInr(cp, mem, op) ==
    StoreCount(add(cp, Operand(cp, mem, (op \div 8) % 8), 1, FALSE),
               mem, (op \div 8) % 8, HL(cp))

\* DCR r and DCR M, and DCR A
ExecDcr(cp, mem, op) ==
    IF op = \h3D
    THEN StoreCountA(subtract(cp, cp.a, 1, FALSE), mem)
    ELSE StoreCount(subtract(cp, Operand(cp, mem, (op \div 8) % 8), 1, FALSE),
                    mem, (op \div 8) % 8, HL(cp))

\* MVI r writing the byte to memory[HL] as well
ExecMviThroughMemory(cp, mem, instruction) ==
    IF (instruction[1] \div 8) % 8 = 6
    THEN Done(cp, MemWrite(mem, HL(cp), instruction[2]), 10)
    ELSE Done(RegSet(cp, (instruction[1] \div 8) % 8, instruction[2]),
              MemWrite(mem, HL(cp), instruction[2]), 7)

\* MVI r (7 states) and MVI M (10)
ExecMvi(cp, mem, instruction) ==
    LET ddd == (instruction[1] \div 8) % 8
    IN  IF ddd = 6 THEN Done(cp, MemWrite(mem, HL(cp), instruction[2]), 10)
        ELSE Done(RegSet(cp, ddd, instruction[2]), mem, 7)

\* LXI B/D/H: high register := instruction[2], low := instruction[1]; LXI SP
ExecLxi(cp, mem, instruction) ==
    LET rp == (instruction[1] \div 16) % 4
    IN  CASE rp = 0 -> Done([cp EXCEPT !.b = instruction[3], !.c = instruction[2]], mem, 10)
          [] rp = 1 -> Done([cp EXCEPT !.d = instruction[3], !.e = instruction[2]], mem, 10)
          [] rp = 2 -> Done([cp EXCEPT !.h = instruction[3], !.l = instruction[2]], mem, 10)
          [] rp = 3 -> Done([cp EXCEPT !.sp = from_le_bytes(instruction[2], instruction[3])],
                            mem, 10)

\* DAD writing Zero as well, from the 16-bit sum
StoreDadSettingZero(cp, sum) ==
    [cp EXCEPT !.condition_flags = set(set(@, CARRY, sum > 65535), ZERO, sum % 65536 = 0),
               !.h = high_byte(sum % 65536), !.l = low_byte(sum % 65536)]

\* after u16::overflowing_add for DAD: Carry := the overflow, HL := the sum
StoreDad(cp, sum) ==
    [cp EXCEPT !.condition_flags = set(@, CARRY, sum > 65535),
               !.h = high_byte(sum % 65536), !.l = low_byte(sum % 65536)]

\* DAD rp: HL := HL + rp
ExecDad(cp, mem, op) ==
    Done(StoreDad(cp, HL(cp) + PairGet(cp, (op \div 16) % 4)), mem, 10)

\* INX rp / DCX rp: wrapping_add(1) / wrapping_sub(1)
ExecInx(cp, mem, op) ==
    LET rp == (op \div 16) % 4
    IN  Done(PairSet(cp, rp, wrapping_add16(PairGet(cp, rp), 1)), mem, 5)

ExecDcx(cp, mem, op) ==
    LET rp == (op \div 16) % 4
    IN  Done(PairSet(cp, rp, wrapping_sub16(PairGet(cp, rp), 1)), mem, 5)

\* the first if of DAA taking Auxiliary Carry from A after the addition
DaaLowAuxAfter(cp) ==
    IF BitAnd(cp.a, \h0F) > \h09 \/ contains(cp.condition_flags, AUX_CARRY)
    THEN [cp EXCEPT !.condition_flags =
                        set(IF cp.a + \h06 > 255 THEN insert(@, CARRY) ELSE @,
                            AUX_CARRY,
                            BitAnd(wrapping_add8(cp.a, \h06), \h0F) + \h06 > \h0F),
                    !.a = wrapping_add8(cp.a, \h06)]
    ELSE cp

\* DAA, its first if: the low nibble
DaaLow(cp) ==
    IF BitAnd(cp.a, \h0F) > \h09 \/ contains(cp.condition_flags, AUX_CARRY)
    THEN [cp EXCEPT !.condition_flags =
                        set(IF cp.a + \h06 > 255 THEN insert(@, CARRY) ELSE @,
                            AUX_CARRY, BitAnd(cp.a, \h0F) + \h06 > \h0F),
                    !.a = wrapping_add8(cp.a, \h06)]
    ELSE cp

\* the second if of DAA testing the high nibble alone, not Carry
DaaHighIgnoringCarry(cp) ==
    IF BitAnd(cp.a, \hF0) > \h90
    THEN [cp EXCEPT !.a = wrapping_add8(cp.a, \h60),
                    !.condition_flags = insert(@, CARRY)]
    ELSE cp

\* DAA, its second if: the high nibble
DaaHigh(cp) ==
    IF BitAnd(cp.a, \hF0) > \h90 \/ contains(cp.condition_flags, CARRY)
    THEN [cp EXCEPT !.a = wrapping_add8(cp.a, \h60),
                    !.condition_flags = insert(@, CARRY)]
    ELSE cp

\* DAA, its last statement
DaaFlags(cp) == update_parity_zero_sign_flags(cp, cp.a)

\* DAA
ExecDaa(cp, mem) == Done(DaaFlags(DaaHigh(DaaLow(cp))), mem, 4)

\* the rotates with RAL and RAR shifting a zero in, whatever Carry holds
ExecRotateShiftingZero(cp, mem, op) ==
    CASE op = \h07 ->
           Done([cp EXCEPT !.condition_flags = set(@, CARRY, BitAnd(cp.a, \h80) > 0),
                           !.a = rotate_left1(cp.a)], mem, 4)
      [] op = \h0F ->
           Done([cp EXCEPT !.condition_flags = set(@, CARRY, BitAnd(cp.a, \h01) > 0),
                           !.a = rotate_right1(cp.a)], mem, 4)
      [] op = \h17 ->
           Done([cp EXCEPT !.condition_flags = set(@, CARRY, BitAnd(cp.a, \h80) > 0),
                           !.a = shl1(cp.a)], mem, 4)
      [] op = \h1F ->
           Done([cp EXCEPT !.condition_flags = set(@, CARRY, BitAnd(cp.a, \h01) > 0),
                           !.a = shr1(cp.a)], mem, 4)

\* RLC RRC RAL RAR
ExecRotate(cp, mem, op) ==
    CASE op = \h07 ->
           Done([cp EXCEPT !.condition_flags = set(@, CARRY, BitAnd(cp.a, \h80) > 0),
                           !.a = rotate_left1(cp.a)], mem, 4)
      [] op = \h0F ->
           Done([cp EXCEPT !.condition_flags = set(@, CARRY, BitAnd(cp.a, \h01) > 0),
                           !.a = rotate_right1(cp.a)], mem, 4)
      [] op = \h17 ->
           Done([cp EXCEPT !.condition_flags = set(@, CARRY, BitAnd(cp.a, \h80) > 0),
                           !.a = IF contains(cp.condition_flags, CARRY)
                                 THEN BitOr(shl1(cp.a), \h01) ELSE shl1(cp.a)],
                mem, 4)
      [] op = \h1F ->
           Done([cp EXCEPT !.condition_flags = set(@, CARRY, BitAnd(cp.a, \h01) > 0),
                           !.a = IF contains(cp.condition_flags, CARRY)
                                 THEN BitOr(shr1(cp.a), \h80) ELSE shr1(cp.a)],
                mem, 4)

\* STAX B/D, LDAX B/D, and with the address in the instruction: SHLD, LHLD,
\* STA, LDA
LoadStore(cp, mem, op, address) ==
    CASE op = \h02 -> Done(cp, MemWrite(mem, BC(cp), cp.a), 7)
      [] op = \h12 -> Done(cp, MemWrite(mem, DE(cp), cp.a), 7)
      [] op = \h0A -> Done([cp EXCEPT !.a = MemRead(mem, BC(cp))], mem, 7)
      [] op = \h1A -> Done([cp EXCEPT !.a = MemRead(mem, DE(cp))], mem, 7)
      [] op = \h22 ->
           Done(cp, MemWrite(MemWrite(mem, address, cp.l),
                             wrapping_add16(address, 1), cp.h), 16)
      [] op = \h2A ->
           Done([cp EXCEPT !.l = MemRead(mem, address),
                           !.h = MemRead(mem, wrapping_add16(address, 1))], mem, 16)
      [] op = \h32 -> Done(cp, MemWrite(mem, address, cp.a), 13)
      [] op = \h3A -> Done([cp EXCEPT !.a = MemRead(mem, address)], mem, 13)

ExecLoadStore(cp, mem, instruction) ==
    LoadStore(cp, mem, instruction[1], from_le_bytes(instruction[2], instruction[3]))

\* PUSH: high at SP-1, low at SP-2, SP -= 2
Push(cp, mem, high, low) ==
    Done([cp EXCEPT !.sp = wrapping_sub16(cp.sp, 2)],
         MemWrite(MemWrite(mem, wrapping_sub16(cp.sp, 1), high),
                  wrapping_sub16(cp.sp, 2), low),
         11)

\* PUSH PSW storing the flags above the accumulator
ExecPushFlagsAbove(cp, mem, op) ==
    CASE op = \hC5 -> Push(cp, mem, cp.b, cp.c)
      [] op = \hD5 -> Push(cp, mem, cp.d, cp.e)
      [] op = \hE5 -> Push(cp, mem, cp.h, cp.l)
      [] op = \hF5 -> Push(cp, mem, cp.condition_flags, cp.a)

\* PUSH B/D/H and PUSH PSW (A, then the bits of the flags)
ExecPush(cp, mem, op) ==
    CASE op = \hC5 -> Push(cp, mem, cp.b, cp.c)
      [] op = \hD5 -> Push(cp, mem, cp.d, cp.e)
      [] op = \hE5 -> Push(cp, mem, cp.h, cp.l)
      [] op = \hF5 -> Push(cp, mem, cp.a, cp.condition_flags)

\* POP: low from SP, high from SP+1, SP += 2
Pop(cp, op, low, high) ==
    CASE op = \hC1 -> [cp EXCEPT !.c = low, !.b = high, !.sp = wrapping_add16(cp.sp, 2)]
      [] op = \hD1 -> [cp EXCEPT !.e = low, !.d = high, !.sp = wrapping_add16(cp.sp, 2)]
      [] op = \hE1 -> [cp EXCEPT !.l = low, !.h = high, !.sp = wrapping_add16(cp.sp, 2)]
      [] op = \hF1 ->
           [cp EXCEPT !.condition_flags = from_bits_truncate(BitOr(low, ALWAYS_ONE)),
                      !.a = high, !.sp = wrapping_add16(cp.sp, 2)]

\* POP reading the high register from SP and the low one from SP+1
ExecPopHighFirst(cp, mem, op) ==
    Done(Pop(cp, op, MemRead(mem, wrapping_add16(cp.sp, 1)), MemRead(mem, cp.sp)),
         mem, 10)

\* POP B/D/H and POP PSW
ExecPop(cp, mem, op) ==
    Done(Pop(cp, op, MemRead(mem, cp.sp), MemRead(mem, wrapping_add16(cp.sp, 1))),
         mem, 10)

\* Jcc: 10 states, taken or not
ExecJcc(cp, mem, instruction) ==
    IF Condition(cp, (instruction[1] \div 8) % 8)
    THEN Done([cp EXCEPT !.pc = from_le_bytes(instruction[2], instruction[3])], mem, 10)
    ELSE Done(cp, mem, 10)

\* Ccc pushing the return address even when the condition fails
ExecCccPushingAlways(cp, mem, instruction) ==
    IF Condition(cp, (instruction[1] \div 8) % 8)
    THEN DoneBoth(call(cp, mem, instruction), 17)
    ELSE Done(cp, call(cp, mem, instruction).memory, 11)

\* Ccc: 17 states when taken, 11 when not
ExecCcc(cp, mem, instruction) ==
    IF Condition(cp, (instruction[1] \div 8) % 8)
    THEN DoneBoth(call(cp, mem, instruction), 17)
    ELSE Done(cp, mem, 11)

\* Rcc: 11 states when taken, 5 when not
ExecRcc(cp, mem, op) ==
    IF Condition(cp, (op \div 8) % 8)
    THEN Done(ret(cp, mem), mem, 11)
    ELSE Done(cp, mem, 5)

\* XCHG copying D and E to H and L without the way back
ExecXchgOneWay(cp, mem) ==
    Done([cp EXCEPT !.h = cp.d, !.l = cp.e], mem, 4)

\* XCHG: mem::swap of H with D and of L with E
ExecXchg(cp, mem) ==
    Done([cp EXCEPT !.h = cp.d, !.d = cp.h, !.l = cp.e, !.e = cp.l], mem, 4)

\* XTHL that loads H and L from the stack and stores nothing
ExecXthlLoadingOnly(cp, mem) ==
    Done([cp EXCEPT !.l = MemRead(mem, cp.sp),
                    !.h = MemRead(mem, wrapping_add16(cp.sp, 1))], mem, 18)

\* XTHL: mem::swap of L with memory[SP], then of H with memory[SP+1]
ExecXthl(cp, mem) ==
    Done([cp EXCEPT !.l = MemRead(mem, cp.sp),
                    !.h = MemRead(MemWrite(mem, cp.sp, cp.l), wrapping_add16(cp.sp, 1))],
         MemWrite(MemWrite(mem, cp.sp, cp.l), wrapping_add16(cp.sp, 1), cp.h),
         18)

\* a faulty DI: an Enabling latch is left as it is
ExecDiUnlessEnabling(cp, mem) ==
    Done(IF cp.interruptable = Enabling
         THEN cp ELSE [cp EXCEPT !.interruptable = Disabled], mem, 4)

\* DI: the latch is Disabled
ExecDi(cp, mem) == Done([cp EXCEPT !.interruptable = Disabled], mem, 4)

\* EI starting the delay whatever the latch holds
ExecEiRestarting(cp, mem) == Done([cp EXCEPT !.interruptable = Enabling], mem, 4)

\* EI: a Disabled latch becomes Enabling, any other latch stays as it is
ExecEi(cp, mem) ==
    Done(IF cp.interruptable = Disabled
         THEN [cp EXCEPT !.interruptable = Enabling] ELSE cp, mem, 4)

(***************************************************************************)
(* Cpu::fetch_instruction: the three arms of the match on memory[pc].      *)
(***************************************************************************)
\* the opcodes of the arm that takes one byte
OneByteOpcodes ==
    {\h00, \h02, \h03, \h04, \h05, \h07, \h09, \h0A, \h0B, \h0C, \h0D, \h0F,
     \h12, \h13, \h14, \h15, \h17, \h19, \h1A, \h1B, \h1C, \h1D, \h1F, \h23,
     \h24, \h25, \h27, \h29, \h2B, \h2C, \h2D, \h2F, \h33, \h34, \h35, \h37,
     \h39, \h3B, \h3C, \h3D, \h3F, \h40, \h41, \h42, \h43, \h44, \h45, \h46,
     \h47, \h48, \h49, \h4A, \h4B, \h4C, \h4D, \h4E, \h4F, \h50, \h51, \h52,
     \h53, \h54, \h55, \h56, \h57, \h58, \h59, \h5A, \h5B, \h5C, \h5D, \h5E,
     \h5F, \h60, \h61, \h62, \h63, \h64, \h65, \h66, \h67, \h68, \h69, \h6A,
     \h6B, \h6C, \h6D, \h6E, \h6F, \h70, \h71, \h72, \h73, \h74, \h75, \h76,
     \h77, \h78, \h79, \h7A, \h7B, \h7C, \h7D, \h7E, \h7F, \h80, \h81, \h82,
     \h83, \h84, \h85, \h86, \h87, \h88, \h89, \h8A, \h8B, \h8C, \h8D, \h8E,
     \h8F, \h90, \h91, \h92, \h93, \h94, \h95, \h96, \h97, \h98, \h99, \h9A,
     \h9B, \h9C, \h9D, \h9E, \h9F, \hA0, \hA1, \hA2, \hA3, \hA4, \hA5, \hA6,
     \hA7, \hA8, \hA9, \hAA, \hAB, \hAC, \hAD, \hAE, \hAF, \hB0, \hB1, \hB2,
     \hB3, \hB4, \hB5, \hB6, \hB7, \hB8, \hB9, \hBA, \hBB, \hBC, \hBD, \hBE,
     \hBF, \hC0, \hC1, \hC5, \hC7, \hC8, \hC9, \hCF, \hD0, \hD1, \hD5, \hD7,
     \hD8, \hDF, \hE0, \hE1, \hE3, \hE5, \hE7, \hE8, \hE9, \hEB, \hEF, \hF0,
     \hF1, \hF3, \hF5, \hF7, \hF8, \hF9, \hFB, \hFF}

\* the opcodes of the arm that takes two bytes
TwoByteOpcodes ==
    {\h06, \h0E, \h16, \h1E, \h26, \h2E, \h36, \h3E, \hC6, \hCE, \hD3, \hD6,
     \hDB, \hDE, \hE6, \hEE, \hF6, \hFE}

\* the opcodes of the arm that takes three bytes
ThreeByteOpcodes ==
    {\h01, \h11, \h21, \h22, \h2A, \h31, \h32, \h3A, \hC2, \hC3, \hC4, \hCA,
     \hCC, \hCD, \hD2, \hD4, \hDA, \hDC, \hE2, \hE4, \hEA, \hEC, \hF2, \hF4,
     \hFA, \hFC}

\* the bytes no arm names: the match falls to unimplemented!()
UndocumentedOpcodes == Byte \ (OneByteOpcodes \cup TwoByteOpcodes \cup ThreeByteOpcodes)

\* "self.pc + n" and "self.pc += n" on a u16: with overflow checks (a debug
\* build) a sum past 0xFFFF panics, without them (a release build) it wraps
Overflows(checks, x, n) == checks /\ x + n > 65535

\* the arm of the match that memory[pc] = op takes, by the bytes it reads;
\* 0 is the arm of unimplemented!()
InstructionLength(op) ==
    CASE op \in OneByteOpcodes -> 1
      [] op \in TwoByteOpcodes -> 2
      [] op \in ThreeByteOpcodes -> 3
      [] OTHER -> 0

\* one arm of the decoder: the bytes read and pc += len
\* panic: the call unwinds and leaves the machine as it was
Fetch(cp, mem, checks, op, len) ==
    IF len = 0 \/ Overflows(checks, cp.pc, len)
    THEN [panic |-> TRUE, instruction |-> <<0, 0, 0>>, cpu |-> cp]
    ELSE [panic |-> FALSE,
          instruction |->
              <<op,
                IF len >= 2 THEN MemRead(mem, wrapping_add16(cp.pc, 1)) ELSE 0,
                IF len >= 3 THEN MemRead(mem, wrapping_add16(cp.pc, 2)) ELSE 0>>,
          cpu |-> [cp EXCEPT !.pc = wrapping_add16(cp.pc, len)]]

\* Cpu::fetch_instruction
fetch_instruction(cp, mem, checks) ==
    Fetch(cp, mem, checks, MemRead(mem, cp.pc), InstructionLength(MemRead(mem, cp.pc)))

\* Cpu::execute_instruction: the match on instruction[0]
Dispatch(cp, mem, instruction, op) ==
    CASE op \in \h40..\h7F -> ExecMov(cp, mem, op)
      [] op \in \h80..\hBF -> ExecAluRegister(cp, mem, op)
      [] op \in {\hC6, \hCE, \hD6, \hDE, \hE6, \hEE, \hF6, \hFE} ->
           ExecAluImmediate(cp, mem, instruction)
      [] op \in {\h04, \h0C, \h14, \h1C, \h24, \h2C, \h34, \h3C} -> ExecInr(cp, mem, op)
      [] op \in {\h05, \h0D, \h15, \h1D, \h25, \h2D, \h35, \h3D} -> ExecDcr(cp, mem, op)
      [] op \in {\h06, \h0E, \h16, \h1E, \h26, \h2E, \h36, \h3E} ->
           ExecMvi(cp, mem, instruction)
      [] op \in {\h01, \h11, \h21, \h31} -> ExecLxi(cp, mem, instruction)
      [] op \in {\h09, \h19, \h29, \h39} -> ExecDad(cp, mem, op)
      [] op \in {\h03, \h13, \h23, \h33} -> ExecInx(cp, mem, op)
      [] op \in {\h0B, \h1B, \h2B, \h3B} -> ExecDcx(cp, mem, op)
      [] op \in {\h02, \h12, \h0A, \h1A, \h22, \h2A, \h32, \h3A} ->
           ExecLoadStore(cp, mem, instruction)
      [] op \in {\h07, \h0F, \h17, \h1F} -> ExecRotate(cp, mem, op)
      [] op = \h27 -> ExecDaa(cp, mem)
      \* CMA, STC, CMC
      [] op = \h2F -> Done([cp EXCEPT !.a = BitNot8(cp.a)], mem, 4)
      [] op = \h37 -> Done([cp EXCEPT !.condition_flags = insert(@, CARRY)], mem, 4)
      [] op = \h3F -> Done([cp EXCEPT !.condition_flags = toggle(@, CARRY)], mem, 4)
      \* NOP, and the undocumented NOPs
      [] op = \h00 -> Done(cp, mem, 4)
      [] op \in {\h08, \h10, \h18, \h20, \h28, \h30, \h38} -> Done(cp, mem, 4)
      [] op \in {\hC0, \hC8, \hD0, \hD8, \hE0, \hE8, \hF0, \hF8} -> ExecRcc(cp, mem, op)
      [] op \in {\hC2, \hCA, \hD2, \hDA, \hE2, \hEA, \hF2, \hFA} ->
           ExecJcc(cp, mem, instruction)
      [] op \in {\hC4, \hCC, \hD4, \hDC, \hE4, \hEC, \hF4, \hFC} ->
           ExecCcc(cp, mem, instruction)
      \* RST n
      [] op \in {\hC7, \hCF, \hD7, \hDF, \hE7, \hEF, \hF7, \hFF} ->
           DoneBoth(restart(cp, mem, op), 11)
      [] op \in {\hC1, \hD1, \hE1, \hF1} -> ExecPop(cp, mem, op)
      [] op \in {\hC5, \hD5, \hE5, \hF5} -> ExecPush(cp, mem, op)
      \* JMP, and the undocumented JMP
      [] op \in {\hC3, \hCB} ->
           Done([cp EXCEPT !.pc = from_le_bytes(instruction[2], instruction[3])], mem, 10)
      \* RET, and the undocumented RET
      [] op \in {\hC9, \hD9} -> Done(ret(cp, mem), mem, 10)
      \* CALL, and the undocumented CALLs
      [] op \in {\hCD, \hDD, \hED, \hFD} ->
           DoneBoth(call(cp, mem, instruction), 17)
      \* OUT, IN
      [] op \in {\hD3, \hDB} -> Done(cp, mem, 10)
      [] op = \hE3 -> ExecXthl(cp, mem)
      \* PCHL, SPHL
      [] op = \hE9 -> Done([cp EXCEPT !.pc = HL(cp)], mem, 5)
      [] op = \hF9 -> Done([cp EXCEPT !.sp = HL(cp)], mem, 5)
      [] op = \hEB -> ExecXchg(cp, mem)
      [] op = \hF3 -> ExecDi(cp, mem)
      [] op = \hFB -> ExecEi(cp, mem)

\* Cpu::execute_instruction
execute_instruction(cp, mem, instruction) ==
    Dispatch(cp, mem, instruction, instruction[1])

(***************************************************************************)
(* The entry points.  A call returns Ok(..) or Err(..), or panics; a panic *)
(* unwinds out of the call and the host makes no further call.             *)
(***************************************************************************)
NoInstruction == <<0, 0, 0>>

\* a faulty promotion: Enabling at the end becomes Enabled whatever the latch
\* held before the instruction
PromoteLatchAtEnd(interruptable, instruction, x) ==
    [result |-> "Ok",
     cpu |-> IF x.cpu.interruptable = Enabling
             THEN [x.cpu EXCEPT !.interruptable = Enabled]
             ELSE x.cpu,
     memory |-> x.memory, instruction |-> instruction, states |-> x.states]

\* a faulty promotion: an EI starts the delay again
PromoteUnlessEi(interruptable, instruction, x) ==
    [result |-> "Ok",
     cpu |-> IF /\ interruptable = Enabling
                /\ x.cpu.interruptable = Enabling
                /\ instruction[1] # \hFB
             THEN [x.cpu EXCEPT !.interruptable = Enabled]
             ELSE x.cpu,
     memory |-> x.memory, instruction |-> instruction, states |-> x.states]

\* a faulty promotion: a HLT keeps the latch from becoming Enabled
PromoteUnlessHalted(interruptable, instruction, x) ==
    [result |-> "Ok",
     cpu |-> IF /\ interruptable = Enabling
                /\ x.cpu.interruptable = Enabling
                /\ ~x.cpu.is_halted
             THEN [x.cpu EXCEPT !.interruptable = Enabled]
             ELSE x.cpu,
     memory |-> x.memory, instruction |-> instruction, states |-> x.states]

\* the end of fetch_execute_instruction: interruptable is what the latch
\* held before the instruction ran, x is what execute_instruction returned;
\* Enabling before and after becomes Enabled
Promote(interruptable, instruction, x) ==
    [result |-> "Ok",
     cpu |-> IF interruptable = Enabling /\ x.cpu.interruptable = Enabling
             THEN [x.cpu EXCEPT !.interruptable = Enabled]
             ELSE x.cpu,
     memory |-> x.memory, instruction |-> instruction, states |-> x.states]

\* fetch_execute_instruction after the fetch returned f
Execute(cp, mem, f) ==
    IF f.panic
    THEN [result |-> "Panic", cpu |-> cp, memory |-> mem,
          instruction |-> NoInstruction, states |-> 0]
    ELSE Promote(f.cpu.interruptable, f.instruction,
                 execute_instruction(f.cpu, mem, f.instruction))

\* a faulty fetch_execute_instruction: the halted flag is not looked at
FetchExecuteWhileHalted(cp, mem, checks) ==
    Execute(cp, mem, fetch_instruction(cp, mem, checks))

\* Cpu::fetch_execute_instruction (Intel8080::fetch_execute_instruction
\* passes its own cpu and memory to it)
fetch_execute_instruction(cp, mem, checks) ==
    IF cp.is_halted
    THEN [result |-> "Halted", cpu |-> cp, memory |-> mem,
          instruction |-> NoInstruction, states |-> 0]
    ELSE Execute(cp, mem, fetch_instruction(cp, mem, checks))

\* interrupt() returns Ok(states) with the machine execute_instruction left
Accepted(x) ==
    [result |-> "Ok", cpu |-> x.cpu, memory |-> x.memory, states |-> x.states]

\* a faulty interrupt: only a Disabled latch rejects
InterruptUnlessDisabled(cp, mem, instruction) ==
    IF cp.interruptable # Disabled
    THEN Accepted(execute_instruction(
                      [cp EXCEPT !.is_halted = FALSE, !.interruptable = Disabled],
                      mem, instruction))
    ELSE [result |-> "InterruptNotEnabled", cpu |-> cp, memory |-> mem, states |-> 0]

\* a faulty interrupt: the latch is left Enabled
InterruptLatchKept(cp, mem, instruction) ==
    IF cp.interruptable = Enabled
    THEN Accepted(execute_instruction([cp EXCEPT !.is_halted = FALSE], mem, instruction))
    ELSE [result |-> "InterruptNotEnabled", cpu |-> cp, memory |-> mem, states |-> 0]

\* a faulty interrupt: pc is advanced as if the instruction had been fetched
InterruptAdvancingPc(cp, mem, instruction) ==
    IF cp.interruptable = Enabled
    THEN Accepted(execute_instruction(
                      [cp EXCEPT !.is_halted = FALSE, !.interruptable = Disabled,
                                 !.pc = wrapping_add16(@, 1)],
                      mem, instruction))
    ELSE [result |-> "InterruptNotEnabled", cpu |-> cp, memory |-> mem, states |-> 0]

\* a faulty interrupt: a halted machine accepts whatever the latch holds
InterruptWakingHalted(cp, mem, instruction) ==
    IF cp.interruptable = Enabled \/ cp.is_halted
    THEN Accepted(execute_instruction(
                      [cp EXCEPT !.is_halted = FALSE, !.interruptable = Disabled],
                      mem, instruction))
    ELSE [result |-> "InterruptNotEnabled", cpu |-> cp, memory |-> mem, states |-> 0]

\* Cpu::interrupt (Intel8080::interrupt passes its own cpu and memory to it)
interrupt(cp, mem, instruction) ==
    IF cp.interruptable = Enabled
    THEN Accepted(execute_instruction(
                      [cp EXCEPT !.is_halted = FALSE, !.interruptable = Disabled],
                      mem, instruction))
    ELSE [result |-> "InterruptNotEnabled", cpu |-> cp, memory |-> mem, states |-> 0]

(***************************************************************************)
(* Construction: Intel8080::new loads the ROM files one after the other    *)
(* from start_address and sets pc to start_address.  A file is the         *)
(* sequence of its bytes; the files are taken to exist and to be readable. *)
(***************************************************************************)
RECURSIVE CopyBytes(_, _, _, _)
\* file.read_exact(&mut self[start_address..end_address]): fills the slice
\* from the front of the file
CopyBytes(mem, bytes, address, n) ==
    IF n = 0 THEN mem
    ELSE CopyBytes(MemWrite(mem, address, Head(bytes)), Tail(bytes), address + 1, n - 1)

\* Memory::load_file
load_file(mem, bytes, start_address, checks) ==
    LET size == Len(bytes)
        size16 == size % 65536
        end_address == wrapping_add16(start_address, size16)
    IN  IF start_address + size > MEMORY_SIZE
        THEN [result |-> "TooLargeFile", memory |-> mem, end_address |-> start_address]
        ELSE IF Overflows(checks, start_address, size16) \/ start_address > end_address
        THEN [result |-> "Panic", memory |-> mem, end_address |-> start_address]
        ELSE [result |-> "Ok",
              memory |-> CopyBytes(mem, bytes, start_address, end_address - start_address),
              end_address |-> end_address]

RECURSIVE load_files(_, _, _, _)
\* Memory::load_files: stops at the first file that fails
load_files(mem, files, start_address, checks) ==
    IF files = <<>>
    THEN [result |-> "Ok", memory |-> mem, end_address |-> start_address]
    ELSE LET r == load_file(mem, Head(files), start_address, checks)
         IN  IF r.result = "Ok"
             THEN load_files(r.memory, Tail(files), r.end_address, checks)
             ELSE r

\* Intel8080::new
new(files, start_address, checks) ==
    LET r == load_files(NewMemory, files, start_address, checks)
    IN  [result |-> r.result,
         cpu |-> [DefaultCpu EXCEPT !.pc = start_address],
         memory |-> r.memory]

(***************************************************************************)
(* The state machine.                                                      *)
(***************************************************************************)
\* a call returned r: the machine is as the call left it, "last" is the call
\* and what it returned, "prev" the machine the call was made on
Returned(op, instruction, r) ==
    /\ cpu' = r.cpu
    /\ memory' = r.memory
    /\ last' = [op |-> op, instruction |-> instruction,
                result |-> r.result, states |-> r.states]
    /\ prev' = [cpu |-> cpu, memory |-> memory]
    /\ calls_left' = calls_left - 1
    /\ UNCHANGED <<overflow_checks, irq_instructions>>

\* the host calls Intel8080::fetch_execute_instruction
StepReturned(r) == Returned("step", r.instruction, r)

Step ==
    /\ calls_left > 0
    /\ last.result # "Panic"
    /\ StepReturned(fetch_execute_instruction(cpu, memory, overflow_checks))

\* the host calls Intel8080::interrupt(instruction)
Interrupt ==
    /\ calls_left > 0
    /\ last.result # "Panic"
    /\ \E instruction \in irq_instructions :
         Returned("interrupt", instruction, interrupt(cpu, memory, instruction))

Next == Step \/ Interrupt

\* what "last" holds before the first call
Constructed == [op |-> "new", instruction |-> NoInstruction, result |-> "Ok", states |-> 0]

(***************************************************************************)
(* Spec: a system built by Intel8080::new from one short ROM, run by a     *)
(* host that steps it and raises interrupts in any order.                  *)
(***************************************************************************)
\* bounds of Spec: the length of the ROM and the number of calls of a run
ProgLen == 3
MaxCalls == 4

\* the bytes a ROM is made of:
\* NOP, EI, DI, HLT, RET, and 0x08 (undocumented)
RomBytes == {\h00, \hFB, \hF3, \h76, \hC9, \h08}

\* where the ROM is loaded: the bottom of memory, two bytes below the vector
\* of RST 1, and the top of memory
StartAddresses == {\h0000, \h0006, 65536 - ProgLen - 1}

\* what the host passes to interrupt(): NOP, RST 1, HLT, EI
IrqInstructions == {<<\h00, 0, 0>>, <<\hCF, 0, 0>>, <<\h76, 0, 0>>, <<\hFB, 0, 0>>}

Init ==
    /\ overflow_checks \in BOOLEAN
    /\ \E rom \in [1..ProgLen -> RomBytes], start_address \in StartAddresses :
         LET n == new(<<rom>>, start_address, overflow_checks)
         IN  /\ n.result = "Ok"
             /\ cpu = n.cpu
             /\ memory = n.memory
             /\ prev = [cpu |-> n.cpu, memory |-> n.memory]
    /\ irq_instructions = IrqInstructions
    /\ calls_left = MaxCalls
    /\ last = Constructed

Spec == Init /\ [][Next]_vars

(***************************************************************************)
(* SpecOp: one instruction, any of the 256 opcodes, on a machine in the    *)
(* middle of a run.  The host reaches the registers, the flags' type and   *)
(* the memory through public fields, and the programs of Spec reach the    *)
(* latch and the halted flag; the instruction lies at pc and is also what  *)
(* the host passes to interrupt().  Every RST vector holds a RET.          *)
(***************************************************************************)
\* the number of calls of a run of SpecOp
OpCalls == 2

\* where the instruction lies
OpPc == \h0100

\* the second and third byte of the instruction
OpOperands == {<<\h34, \h12>>, <<\hFF, \hFF>>}

\* the accumulator
OpAccumulators == {\h00, \h9A, \hFF}

\* the flags: none, all, Carry with Auxiliary Carry, Zero with Parity
OpFlags == {\h02, \hD7, \h13, \h46}

\* the stack pointer, and the two bytes on top of the stack; the low byte
\* \hFD has bits 3 and 5 set and bit 1 clear
OpSp == \h3000
OpStacks == {<<\h00, \h02>>, <<\hFD, \h81>>}

\* the latch and the halted flag as the calls of Spec leave them: a halted
\* machine is never Enabling, because the step that executes HLT promotes
\* Enabling and interrupt() leaves a halted machine only when it executes HLT
\* with the latch Disabled
ReachableLatches ==
    {<<Disabled, FALSE>>, <<Enabling, FALSE>>, <<Enabled, FALSE>>,
     <<Disabled, TRUE>>, <<Enabled, TRUE>>}

\* the addresses RST 0 .. RST 7 jump to
Vectors == {8 * n : n \in 0..7}

RECURSIVE Fill(_, _, _)
\* memory with byte written at every address of the set
Fill(mem, addresses, byte) ==
    IF addresses = {} THEN mem
    ELSE LET address == CHOOSE x \in addresses : \A y \in addresses : x <= y
         IN  Fill(MemWrite(mem, address, byte), addresses \ {address}, byte)

\* the memory of SpecOp: RET at the vectors, the instruction at pc, two bytes
\* on the stack
OpMemory(instruction, stack) ==
    MemWrite(MemWrite(
        MemWrite(MemWrite(MemWrite(Fill(NewMemory, Vectors, \hC9),
            OpPc, instruction[1]), OpPc + 1, instruction[2]), OpPc + 2, instruction[3]),
        OpSp, stack[1]), OpSp + 1, stack[2])

InitOp ==
    /\ overflow_checks \in BOOLEAN
    /\ \E opcode \in Byte, operands \in OpOperands, stack \in OpStacks,
          a \in OpAccumulators, flags \in OpFlags, latch \in ReachableLatches :
         /\ cpu = [pc |-> OpPc, sp |-> OpSp,
                   b |-> \h12, c |-> \hFF, d |-> \h00, e |-> \h80, h |-> \h2F, l |-> \hFF,
                   a |-> a, condition_flags |-> flags,
                   interruptable |-> latch[1], is_halted |-> latch[2]]
         /\ memory = OpMemory(<<opcode, operands[1], operands[2]>>, stack)
         /\ irq_instructions = {<<opcode, operands[1], operands[2]>>}
    /\ prev = [cpu |-> cpu, memory |-> memory]
    /\ calls_left = OpCalls
    /\ last = Constructed

SpecOp == InitOp /\ [][Next]_vars

\* Spec leaves the latch and the halted flag in one of ReachableLatches
LatchIsReachable == <<cpu.interruptable, cpu.is_halted>> \in ReachableLatches

(***************************************************************************)
(* SpecTop: one instruction, any of the 256 opcodes, that lies at the top  *)
(* of memory, so that its bytes or the pc after it pass 0xFFFF.  The       *)
(* operand bytes lie at the addresses taken modulo 2^16.                   *)
(***************************************************************************)
\* where the instruction lies: its third byte, its second byte or the pc
\* after it is address 0x0000
TopPcs == {\hFFFD, \hFFFE, \hFFFF}

\* the memory of SpecTop: the three bytes from pc on, modulo 2^16
TopMemory(pc, instruction) ==
    MemWrite(MemWrite(MemWrite(NewMemory,
        pc, instruction[1]),
        wrapping_add16(pc, 1), instruction[2]),
        wrapping_add16(pc, 2), instruction[3])

InitTop ==
    /\ overflow_checks \in BOOLEAN
    /\ \E pc \in TopPcs, opcode \in Byte, operands \in OpOperands,
          latch \in ReachableLatches :
         /\ cpu = [DefaultCpu EXCEPT !.pc = pc, !.sp = OpSp,
                                     !.interruptable = latch[1],
                                     !.is_halted = latch[2]]
         /\ memory = TopMemory(pc, <<opcode, operands[1], operands[2]>>)
         /\ irq_instructions = {<<opcode, operands[1], operands[2]>>}
    /\ prev = [cpu |-> cpu, memory |-> memory]
    /\ calls_left = OpCalls
    /\ last = Constructed

SpecTop == InitTop /\ [][Next]_vars

(***************************************************************************)
(* SpecAlu: one arithmetic, logical, count or move-immediate instruction   *)
(* on every accumulator and every operand.  The host sets the registers    *)
(* and the memory through public fields and steps the machine once.        *)
(***************************************************************************)
\* the number of calls of a run of SpecAlu
AluCalls == 1

\* ADI ACI SUI SBI ANI XRI ORI CPI
AluImmediateOpcodes == {\hC6, \hCE, \hD6, \hDE, \hE6, \hEE, \hF6, \hFE}

\* ADD ADC SUB SBB ANA XRA ORA CMP, each of B C D E H L M A
AluRegisterOpcodes == \h80..\hBF

\* INR and DCR, each of B C D E H L M A
CountOpcodes == {\h04 + 8 * k : k \in 0..7} \cup {\h05 + 8 * k : k \in 0..7}

\* MVI, each of B C D E H L M A
MviOpcodes == {\h06 + 8 * k : k \in 0..7}

\* the flags of the two-operand cases: none set, all set
AluFlags == {\h02, \hD7}

\* the flags of the one-operand cases: Carry and Auxiliary Carry each way,
\* and all set
CountFlags == {\h02, \h03, \h12, \h13, \hD7}

\* the operands of the register forms
AluOperands == {\h00, \h01, \h0F, \h10, \h7F, \h80, \hFF}

\* the machine of SpecAlu: a in the accumulator, r in every other register
\* and in memory[HL], the instruction (opcode, immediate) at pc
AluMachine(opcode, a, r, immediate, flags) ==
    /\ cpu = [DefaultCpu EXCEPT !.pc = OpPc, !.sp = OpSp, !.a = a,
                                !.b = r, !.c = r, !.d = r, !.e = r, !.h = r, !.l = r,
                                !.condition_flags = flags]
    /\ memory = MemWrite(MemWrite(MemWrite(NewMemory,
                    OpPc, opcode), OpPc + 1, immediate), from_le_bytes(r, r), r)
    /\ irq_instructions = {<<opcode, immediate, 0>>}

InitAlu ==
    /\ overflow_checks = FALSE
    /\ \/ \E opcode \in AluImmediateOpcodes, a \in Byte, y \in Byte, flags \in AluFlags :
            AluMachine(opcode, a, \h5A, y, flags)
       \/ \E opcode \in AluRegisterOpcodes, a \in Byte, y \in AluOperands, flags \in AluFlags :
            AluMachine(opcode, a, y, \hA5, flags)
       \/ \E opcode \in CountOpcodes, x \in Byte, flags \in CountFlags :
            AluMachine(opcode, x, x, \hA5, flags)
       \/ \E a \in Byte, flags \in CountFlags :
            AluMachine(\h27, a, \h5A, \hA5, flags)
       \/ \E opcode \in MviOpcodes, x \in Byte, flags \in AluFlags :
            AluMachine(opcode, \h3C, \h5A, x, flags)
    /\ prev = [cpu |-> cpu, memory |-> memory]
    /\ calls_left = AluCalls
    /\ last = Constructed

SpecAlu == InitAlu /\ [][Step]_vars

(***************************************************************************)
(* SpecSeq: two steps of a short program on a machine in the middle of a   *)
(* run: a PUSH and its POP, two XCHG, a CALL and the RET at its target, a  *)
(* POP PSW of any byte, a conditional jump, call or return under every     *)
(* setting of the five flags, an RST.  The stack pointer lies at the       *)
(* bottom and the top of memory, on the program, and clear of both.        *)
(***************************************************************************)
\* the number of calls of a run of SpecSeq
SeqCalls == 2

\* where the program lies: low memory, an address whose successor by three
\* has 0xC9 in both bytes, and the last three bytes of memory
SeqPcs == {\h0100, \hC9C6, \hFFFD}

\* the stack pointer
SeqSps == {\h0000, \h0001, \h0002, \h0101, \h0102, \h0103, \h3000, \hFFFF}

\* the bytes of the registers: POP B (0xC1) and RET (0xC9) among them
SeqBytes == {\h00, \hC1, \hC9, \h5A, \hFF}

\* the targets of the jumps and calls, and the return addresses on the stack
SeqTargets == {\h0000, \h0200, \hFFFF}

\* the flag bytes of a run: bit 1 set, bits 3 and 5 clear
RunFlags == {flags \in Byte : BitAnd(flags, AllFlagBits) = flags /\ contains(flags, ALWAYS_ONE)}

\* the flags of the programs that test none; 0x00 is ConditionFlags::empty(),
\* which a host can write to the public field
SeqFlags == {\h00, \h02, \h46, \hD7}

\* PUSH B/D/H/PSW with its POP, and two XCHG
PairPrograms ==
    {<<\hC5, \hC1, \h00>>, <<\hD5, \hD1, \h00>>, <<\hE5, \hE1, \h00>>,
     <<\hF5, \hF1, \h00>>, <<\hEB, \hEB, \h00>>}

\* the opcodes of RST 0 .. RST 7
RstOpcodes == {\hC7, \hCF, \hD7, \hDF, \hE7, \hEF, \hF7, \hFF}

\* Jcc, Ccc and Rcc, by the condition in bits 3-5
JccOpcodes == {\hC2 + 8 * k : k \in 0..7}
CccOpcodes == {\hC4 + 8 * k : k \in 0..7}
RccOpcodes == {\hC0 + 8 * k : k \in 0..7}

\* the machine of SpecSeq: x and y in the registers, the word "stack" at sp,
\* RET at the target, and over them the three bytes of the program at pc
SeqMachine(pc, program, sp, stack, target, x, y, flags) ==
    /\ cpu = [DefaultCpu EXCEPT !.pc = pc, !.sp = sp,
                                !.b = x, !.c = y, !.d = y, !.e = x,
                                !.h = x, !.l = y, !.a = y,
                                !.condition_flags = flags]
    /\ memory = MemWrite(MemWrite(MemWrite(
                    MemWrite(
                        MemWrite(MemWrite(NewMemory, sp, low_byte(stack)),
                                 wrapping_add16(sp, 1), high_byte(stack)),
                        target, \hC9),
                    pc, program[1]), pc + 1, program[2]), pc + 2, program[3])

InitSeq ==
    /\ overflow_checks \in BOOLEAN
    /\ \/ \E pc \in SeqPcs, program \in PairPrograms, sp \in SeqSps,
             x \in SeqBytes, y \in SeqBytes, flags \in SeqFlags :
            SeqMachine(pc, program, sp, \h0200, \h0200, x, y, flags)
       \/ \E pc \in SeqPcs, target \in SeqTargets, sp \in SeqSps :
            SeqMachine(pc, <<\hCD, low_byte(target), high_byte(target)>>,
                       sp, \h0200, target, \h5A, \hC9, \h02)
       \/ \E low \in Byte, high \in {\h00, \hFF}, sp \in SeqSps :
            SeqMachine(\h0100, <<\hF1, \h00, \h00>>,
                       sp, from_le_bytes(low, high), \h0200, \h5A, \hC9, \h02)
       \/ \E pc \in SeqPcs, opcode \in JccOpcodes \cup CccOpcodes \cup RccOpcodes,
             target \in SeqTargets, sp \in SeqSps, flags \in RunFlags :
            SeqMachine(pc, <<opcode, low_byte(target), high_byte(target)>>,
                       sp, target, target, \h5A, \hC9, flags)
       \/ \E pc \in SeqPcs, opcode \in RstOpcodes, sp \in SeqSps :
            SeqMachine(pc, <<opcode, \h00, \h00>>, sp, \h0200, \h0200, \h5A, \hC9, \h02)
    /\ irq_instructions = {}
    /\ prev = [cpu |-> cpu, memory |-> memory]
    /\ calls_left = SeqCalls
    /\ last = Constructed

SpecSeq == InitSeq /\ [][Step]_vars

(***************************************************************************)
(* SpecLoad: a host that loads files into the memory of a fresh system     *)
(* through Memory::load_file, at the bottom and at the top of memory.      *)
(***************************************************************************)
\* bounds of SpecLoad: the number of loads of a run, and the length of the
\* longest short file
LoadCalls == 2
MaxFile == 3

\* where a file is loaded
LoadAddresses == {\h0000, \h0100, 65535 - MaxFile, \hFFFD, \hFFFE, \hFFFF}

\* the bytes of the short files
FileBytes == {\h5A, \hC9}

\* the files: every short file, and one as long as the memory
Files ==
    UNION {[1..n -> FileBytes] : n \in 0..MaxFile}
        \cup {[i \in 1..MEMORY_SIZE |-> \h5A]}

\* load_file returned r for the file "bytes" at start_address
Loaded(bytes, start_address, r) ==
    /\ memory' = r.memory
    /\ last' = [op |-> "load", instruction |-> NoInstruction,
                result |-> r.result, states |-> 0,
                bytes |-> bytes, start_address |-> start_address,
                end_address |-> r.end_address]
    /\ prev' = [cpu |-> cpu, memory |-> memory]
    /\ calls_left' = calls_left - 1
    /\ UNCHANGED <<cpu, overflow_checks, irq_instructions>>

\* the host calls Memory::load_file on the memory of the system
Load ==
    /\ calls_left > 0
    /\ last.result # "Panic"
    /\ \E bytes \in Files, start_address \in LoadAddresses :
         Loaded(bytes, start_address,
                load_file(memory, bytes, start_address, overflow_checks))

InitLoad ==
    /\ overflow_checks \in BOOLEAN
    /\ cpu = DefaultCpu
    /\ memory = NewMemory
    /\ irq_instructions = {}
    /\ prev = [cpu |-> cpu, memory |-> memory]
    /\ calls_left = LoadCalls
    /\ last = Constructed

SpecLoad == InitLoad /\ [][Load]_vars

(***************************************************************************)
(* SpecReg: two instructions on the accumulator, the register pairs and    *)
(* the stack: the rotates, DAD, INX and DCX, XTHL, LHLD and SHLD and the   *)
(* stack instructions at the ends of memory, DCR, and an addition followed *)
(* by DAA.                                                                 *)
(***************************************************************************)
\* bound of SpecReg: the number of calls of a run
RegCalls == 2

\* RLC RRC RAL RAR
RotateOpcodes == {\h07, \h0F, \h17, \h1F}

\* DAD, INX and DCX of B, D, H and SP
DadOpcodes == {\h09, \h19, \h29, \h39}
InxOpcodes == {\h03, \h13, \h23, \h33}
DcxOpcodes == {\h0B, \h1B, \h2B, \h3B}

\* DCR B, C, D, E, H, L
DcrRegisterOpcodes == {\h05, \h0D, \h15, \h1D, \h25, \h2D}

\* PUSH and POP of B, D, H and PSW
PushOpcodes == {\hC5, \hD5, \hE5, \hF5}
PopOpcodes == {\hC1, \hD1, \hE1, \hF1}

\* the words of the register pairs and of the stack
RegWords == {\h0000, \h0001, \h00FF, \h0100, \h7FFF, \h8000, \hFFFE, \hFFFF}

\* the stack pointers and the addresses of LHLD and SHLD
RegSps == {\h0000, \h0001, \h3000, \hFFFE, \hFFFF}

\* the flags: Carry each way, the other flags all clear or all set
RegFlags == {\h02, \h03, \hD6, \hD7}

\* the bytes whose two nibbles are decimal digits
PackedBcd == {16 * tens + units : tens \in 0..9, units \in 0..9}

\* the machine of SpecReg: the program at 0x0100, under it "word" at
\* "address" and the one after it
RegMachine(program, a, flags, bc, de, hl, sp, address, word) ==
    /\ cpu = [DefaultCpu EXCEPT !.pc = \h0100, !.sp = sp, !.a = a,
                                !.b = high_byte(bc), !.c = low_byte(bc),
                                !.d = high_byte(de), !.e = low_byte(de),
                                !.h = high_byte(hl), !.l = low_byte(hl),
                                !.condition_flags = flags]
    /\ memory = MemWrite(MemWrite(MemWrite(
                    MemWrite(MemWrite(NewMemory, address, low_byte(word)),
                             wrapping_add16(address, 1), high_byte(word)),
                    \h0100, program[1]), \h0101, program[2]), \h0102, program[3])

InitReg ==
    /\ overflow_checks \in BOOLEAN
    /\ \/ \E first \in RotateOpcodes, second \in RotateOpcodes,
             a \in Byte, flags \in RegFlags :
            RegMachine(<<first, second, \h00>>, a, flags,
                       \h12FF, \h0080, \h2FFF, \h3000, \h3000, \h0200)
       \/ \E opcode \in DadOpcodes \cup InxOpcodes \cup DcxOpcodes,
             hl \in RegWords, rp \in RegWords, flags \in RegFlags :
            RegMachine(<<opcode, \h00, \h00>>, \h5A, flags,
                       rp, rp, hl, rp, \h3000, \h0200)
       \/ \E sp \in RegSps, hl \in RegWords, word \in RegWords, flags \in RegFlags :
            RegMachine(<<\hE3, \hE3, \h00>>, \h5A, flags,
                       \h12FF, \h0080, hl, sp, sp, word)
       \/ \E opcode \in {\h22, \h2A}, address \in RegSps,
             hl \in RegWords, word \in RegWords :
            RegMachine(<<opcode, low_byte(address), high_byte(address)>>, \h5A, \h02,
                       \h12FF, \h0080, hl, \h3000, address, word)
       \/ \E opcode \in PushOpcodes \cup PopOpcodes \cup RstOpcodes \cup {\hCD, \hC9},
             sp \in RegSps, hl \in RegWords, word \in RegWords :
            RegMachine(<<opcode, \h00, \h02>>, \h5A, \hD7,
                       \h12FF, \h0080, hl, sp, sp, word)
       \/ \E first \in DcrRegisterOpcodes \cup {\h3D},
             second \in DcrRegisterOpcodes \cup {\h3D},
             value \in Byte, flags \in RunFlags :
            /\ (first = \h3D) # (second = \h3D)
            /\ RegMachine(<<first, second, \h00>>, value, flags,
                          from_le_bytes(value, value), from_le_bytes(value, value),
                          from_le_bytes(value, value), \h3000, \h3000, \h0200)
       \/ \E opcode \in {\h80, \h88}, x \in PackedBcd, y \in PackedBcd,
             flags \in RegFlags :
            RegMachine(<<opcode, \h27, \h00>>, x, flags,
                       from_le_bytes(\hFF, y), \h0080, \h2FFF, \h3000, \h3000, \h0200)
    /\ irq_instructions = {}
    /\ prev = [cpu |-> cpu, memory |-> memory]
    /\ calls_left = RegCalls
    /\ last = Constructed

SpecReg == InitReg /\ [][Step]_vars

(***************************************************************************)
(* The properties.  "last" is the call made last and what it returned,     *)
(* "prev" the machine it was made on; of a step, last' and cpu' are the    *)
(* call the step makes and the machine it leaves.                          *)
(***************************************************************************)
\* the call made last was a step() that executed an instruction of opcodes
StepExecuted(made, opcodes) ==
    made.op = "step" /\ made.result = "Ok" /\ made.instruction[1] \in opcodes

\* the call "made" was an interrupt() that was accepted
InterruptAccepted(made) == made.op = "interrupt" /\ made.result = "Ok"

\* the call "made" was an interrupt() that was rejected
InterruptRejected(made) == made.op = "interrupt" /\ made.result = "InterruptNotEnabled"

\* the opcodes whose arm of execute_instruction writes pc: Rcc, RET, Jcc,
\* JMP, Ccc, CALL, RST, PCHL, and the undocumented JMP, RET and CALLs
PcWriters ==
    {op \in \hC0..\hFF : op % 8 \in {0, 2, 4, 7}}
        \cup {\hC3, \hC9, \hCD, \hE9, \hCB, \hD9, \hDD, \hED, \hFD}

\* the 16-bit word that lies at address, low byte first
WordAt(mem, address) ==
    from_le_bytes(MemRead(mem, address), MemRead(mem, wrapping_add16(address, 1)))

\* C1: in every state that step() and interrupt() calls reach, with any
\* opcode and POP PSW of any stack byte, bit 1 of the flags is 1 and bits 3
\* and 5 are 0.
C1_FlagBits == BitAnd(cpu.condition_flags, \h2A) = \h02

\* C1: a POP PSW has taken the flags from a stack byte with bits 3 and 5 set
\* and bit 1 clear
C1_PopPswOfAnyByte ==
    /\ StepExecuted(last, {\hF1})
    /\ MemRead(prev.memory, prev.cpu.sp) = \hFD
    /\ cpu.condition_flags = \hD7

\* C2: a step() that executes EI on a Disabled latch leaves it Enabling; while
\* the latch is Enabling an interrupt() is rejected and changes nothing of it,
\* and a step() that completes an instruction leaves it Enabled, or Disabled
\* when the instruction is DI; interrupt() is accepted on an Enabled latch
\* only, and the latch becomes Enabled in no other way.
C2_EiDelay ==
    [][/\ (StepExecuted(last', {\hFB}) /\ cpu.interruptable = Disabled)
            => cpu'.interruptable = Enabling
       /\ (cpu.interruptable = Enabling /\ last'.op = "interrupt")
            => (InterruptRejected(last') /\ cpu'.interruptable = Enabling)
       /\ (cpu.interruptable = Enabling /\ StepExecuted(last', Byte))
            => cpu'.interruptable =
                   IF last'.instruction[1] = \hF3 THEN Disabled ELSE Enabled
       /\ InterruptAccepted(last') => cpu.interruptable = Enabled
       /\ (cpu.interruptable # Enabled /\ cpu'.interruptable = Enabled)
            => (cpu.interruptable = Enabling /\ StepExecuted(last', Byte \ {\hF3}))
      ]_vars

\* C2: EI, then HLT, then an interrupt() that is accepted
C2_AcceptedAfterEiHlt ==
    /\ InterruptAccepted(last)
    /\ prev.cpu.is_halted
    /\ calls_left = MaxCalls - 3

\* C3: of two consecutive step() calls that both execute EI, the first on a
\* Disabled latch, the first leaves the latch Enabling and the second leaves
\* it Enabled, and an interrupt() made then is accepted.
C3_TwoEi ==
    [][(/\ StepExecuted(last, {\hFB})
        /\ prev.cpu.interruptable = Disabled
        /\ StepExecuted(last', {\hFB}))
           => /\ cpu.interruptable = Enabling
              /\ cpu'.interruptable = Enabled
              /\ \A instruction \in irq_instructions :
                     interrupt(cpu', memory', instruction).result = "Ok"
      ]_vars

\* C3: EI, EI, then an interrupt() that is accepted
C3_AcceptedAfterTwoEi ==
    /\ InterruptAccepted(last)
    /\ calls_left = MaxCalls - 3
    /\ prev.cpu.pc >= 2
    /\ MemRead(prev.memory, prev.cpu.pc - 1) = \hFB
    /\ MemRead(prev.memory, prev.cpu.pc - 2) = \hFB

\* C4: a step() that executes DI leaves the latch Disabled whatever it was;
\* EI on a Disabled latch followed at once by DI passes through Enabling to
\* Disabled; and from a Disabled latch interrupt() is rejected, the latch
\* leaves Disabled only by a step() that executes EI, to Enabling, where
\* interrupt() is still rejected and only a further step() makes it Enabled.
C4_DiDisables ==
    [][/\ StepExecuted(last', {\hF3}) => cpu'.interruptable = Disabled
       /\ (/\ StepExecuted(last, {\hFB})
           /\ prev.cpu.interruptable = Disabled
           /\ StepExecuted(last', {\hF3}))
            => (cpu.interruptable = Enabling /\ cpu'.interruptable = Disabled)
       /\ (cpu.interruptable # Enabled /\ last'.op = "interrupt")
            => (InterruptRejected(last') /\ cpu'.interruptable = cpu.interruptable)
       /\ (cpu.interruptable = Disabled /\ cpu'.interruptable # Disabled)
            => (cpu'.interruptable = Enabling /\ StepExecuted(last', {\hFB}))
       /\ (cpu.interruptable = Enabling /\ cpu'.interruptable = Enabled)
            => StepExecuted(last', Byte)
      ]_vars

\* C4: EI, then DI: the DI found the latch Enabling and left it Disabled
C4_DiAfterEi ==
    /\ StepExecuted(last, {\hF3})
    /\ prev.cpu.interruptable = Enabling
    /\ cpu.interruptable = Disabled

\* C5: interrupt() on a Disabled or Enabling latch returns
\* InterruptNotEnabled and leaves registers, flags, pc, sp, memory, the
\* halted flag and the latch as they were.
C5_RejectedInterrupt ==
    (last.op = "interrupt" /\ prev.cpu.interruptable \in {Disabled, Enabling})
        => /\ last.result = "InterruptNotEnabled"
           /\ last.states = 0
           /\ cpu = prev.cpu
           /\ memory = prev.memory

\* C5: an RST 1 was passed to interrupt() while the latch was Enabling
C5_RejectedRst ==
    /\ InterruptRejected(last)
    /\ last.instruction[1] = \hCF
    /\ prev.cpu.interruptable = Enabling

\* C6: an interrupt() that is accepted leaves the latch Disabled, or Enabling
\* when the instruction is EI, and an interrupt() made right after it is
\* rejected.
C6_InterruptDisables ==
    [][/\ InterruptAccepted(last')
            => cpu'.interruptable =
                   IF last'.instruction[1] = \hFB THEN Enabling ELSE Disabled
       /\ (InterruptAccepted(last) /\ last'.op = "interrupt")
            => InterruptRejected(last')
      ]_vars

\* C6: an RST 1 was accepted (pc is its vector, the pc of before is on the
\* stack) and a second interrupt() was rejected
C6_SecondInterruptRejected ==
    /\ InterruptRejected(last)
    /\ calls_left = OpCalls - 2
    /\ last.instruction[1] = \hCF
    /\ prev.cpu.pc = 8
    /\ prev.cpu.sp = OpSp - 2
    /\ WordAt(prev.memory, prev.cpu.sp) = OpPc

\* C7: an interrupt() that is accepted leaves pc as it was when the
\* instruction's arm does not write pc; with RST n it pushes the pc of before
\* the call and makes pc 8*n, and a step() that then executes RET makes pc
\* the pc of before the interrupt().
C7_InterruptKeepsPc ==
    [][/\ (InterruptAccepted(last') /\ last'.instruction[1] \notin PcWriters)
            => cpu'.pc = cpu.pc
       /\ (InterruptAccepted(last') /\ last'.instruction[1] \in RstOpcodes)
            => /\ cpu'.pc = 8 * ((last'.instruction[1] \div 8) % 8)
               /\ cpu'.sp = wrapping_sub16(cpu.sp, 2)
               /\ WordAt(memory', cpu'.sp) = cpu.pc
       /\ (/\ InterruptAccepted(last)
           /\ last.instruction[1] \in RstOpcodes
           /\ StepExecuted(last', {\hC9}))
            => cpu'.pc = prev.cpu.pc
      ]_vars

\* C7: an RST was accepted and the RET at its vector has come back to the pc
\* of before the interrupt()
C7_RetAfterRst ==
    /\ StepExecuted(last, {\hC9})
    /\ calls_left = OpCalls - 2
    /\ \A instruction \in irq_instructions : instruction[1] \in RstOpcodes
    /\ prev.cpu.pc \in Vectors
    /\ WordAt(memory, OpSp - 2) = OpPc
    /\ cpu.pc = OpPc

\* C8: step() on a halted machine returns Halted and changes nothing: pc,
\* registers, flags, memory and the latch are as they were; nor would a
\* halted machine with any latch, Enabling too, be changed.
C8_HaltedStep ==
    /\ (last.op = "step" /\ prev.cpu.is_halted)
         => /\ last.result = "Halted"
            /\ last.states = 0
            /\ cpu = prev.cpu
            /\ memory = prev.memory
    /\ \A latch \in Interruptable :
         fetch_execute_instruction(
             [cpu EXCEPT !.is_halted = TRUE, !.interruptable = latch],
             memory, overflow_checks)
           = [result |-> "Halted",
              cpu |-> [cpu EXCEPT !.is_halted = TRUE, !.interruptable = latch],
              memory |-> memory, instruction |-> NoInstruction, states |-> 0]

\* C8: step() was called on a halted machine with an RST 1 at pc
C8_SteppedWhileHalted ==
    /\ last.op = "step"
    /\ last.result = "Halted"
    /\ prev.cpu.is_halted
    /\ MemRead(memory, cpu.pc) = \hCF

\* C9: a step() that executes HLT takes 7 states, advances pc by one and
\* halts; a step() on a halted machine returns Halted and leaves it halted;
\* an accepted interrupt() of an instruction other than HLT leaves the
\* machine not halted, and the step() made next succeeds with the
\* instruction that lies at pc.
C9_HaltUntilInterrupt ==
    [][/\ StepExecuted(last', {\h76})
            => /\ last'.states = 7
               /\ cpu'.pc = wrapping_add16(cpu.pc, 1)
               /\ cpu'.is_halted
       /\ (cpu.is_halted /\ last'.op = "step")
            => (last'.result = "Halted" /\ cpu'.is_halted)
       /\ (cpu.is_halted /\ ~cpu'.is_halted) => InterruptAccepted(last')
       /\ (InterruptAccepted(last') /\ last'.instruction[1] # \h76)
            => ~cpu'.is_halted
       /\ (/\ InterruptAccepted(last)
           /\ prev.cpu.is_halted
           /\ last.instruction[1] # \h76
           /\ last'.op = "step")
            => /\ last'.result = "Ok"
               /\ last'.instruction[1] = MemRead(memory, cpu.pc)
      ]_vars

\* C9: after HLT and an accepted interrupt() the step() has not returned: the
\* byte at pc is an undocumented opcode
C9_StepAfterEscapePanics ==
    /\ last.op = "step"
    /\ last.result = "Panic"
    /\ ~prev.cpu.is_halted
    /\ prev.cpu.interruptable = Disabled
    /\ MemRead(prev.memory, wrapping_sub16(prev.cpu.pc, 1)) = \h76
    /\ MemRead(prev.memory, prev.cpu.pc) \in UndocumentedOpcodes
    /\ calls_left = MaxCalls - 4

\* C10: step() on an undocumented opcode returns Ok: 0x08, 0x10, 0x18, 0x20,
\* 0x28, 0x30, 0x38 as NOP (pc + 1, 4 states), 0xCB as JMP (3 bytes, 10
\* states), 0xD9 as RET (1 byte, 10 states), 0xDD, 0xED, 0xFD as CALL (3
\* bytes, 17 states).
C10_UndocumentedAliases ==
    (/\ last.op = "step"
     /\ ~prev.cpu.is_halted
     /\ MemRead(prev.memory, prev.cpu.pc) \in UndocumentedOpcodes)
        => /\ last.result = "Ok"
           /\ last.instruction[1] = MemRead(prev.memory, prev.cpu.pc)
           /\ CASE last.instruction[1] \in {\h08, \h10, \h18, \h20, \h28, \h30, \h38} ->
                     /\ last.states = 4
                     /\ cpu.pc = wrapping_add16(prev.cpu.pc, 1)
                     /\ memory = prev.memory
                [] last.instruction[1] = \hCB ->
                     /\ last.states = 10
                     /\ cpu.pc = WordAt(prev.memory, wrapping_add16(prev.cpu.pc, 1))
                     /\ memory = prev.memory
                [] last.instruction[1] = \hD9 ->
                     /\ last.states = 10
                     /\ cpu.pc = WordAt(prev.memory, prev.cpu.sp)
                     /\ cpu.sp = wrapping_add16(prev.cpu.sp, 2)
                [] last.instruction[1] \in {\hDD, \hED, \hFD} ->
                     /\ last.states = 17
                     /\ cpu.pc = WordAt(prev.memory, wrapping_add16(prev.cpu.pc, 1))
                     /\ cpu.sp = wrapping_sub16(prev.cpu.sp, 2)
                     /\ WordAt(memory, cpu.sp) = wrapping_add16(prev.cpu.pc, 3)

\* C10: step() was called with the undocumented NOP 0x08 at pc and has not
\* returned
C10_UndocumentedPanics ==
    /\ last.op = "step"
    /\ last.result = "Panic"
    /\ MemRead(prev.memory, prev.cpu.pc) = \h08
    /\ cpu = prev.cpu

\* the opcodes the decoder knows
DocumentedOpcodes == Byte \ UndocumentedOpcodes

\* the length of a documented opcode by the instruction set: 3 for LXI, SHLD,
\* LHLD, STA, LDA, JMP, Jcc, CALL, Ccc; 2 for MVI, ADI, ACI, SUI, SBI, ANI,
\* XRI, ORI, CPI, IN, OUT; 1 otherwise
LengthOf(op) ==
    CASE op \in {\h01, \h11, \h21, \h31, \h22, \h2A, \h32, \h3A, \hC3, \hCD}
                \cup {\hC2 + 8 * k : k \in 0..7} \cup {\hC4 + 8 * k : k \in 0..7} -> 3
      [] op \in {\h06 + 8 * k : k \in 0..7} \cup {\hC6 + 8 * k : k \in 0..7}
                \cup {\hD3, \hDB} -> 2
      [] OTHER -> 1

\* the tuple of the instruction of length len that lies at pc, the addresses
\* taken modulo 2^16 and the slots beyond len zero
TupleAt(mem, pc, len) ==
    <<MemRead(mem, pc),
      IF len >= 2 THEN MemRead(mem, (pc + 1) % 65536) ELSE 0,
      IF len >= 3 THEN MemRead(mem, (pc + 2) % 65536) ELSE 0>>

\* the call made last was a step() on a machine that was not halted, with a
\* documented opcode at pc
SteppedDocumented ==
    /\ last.op = "step"
    /\ ~prev.cpu.is_halted
    /\ MemRead(prev.memory, prev.cpu.pc) \in DocumentedOpcodes

\* C11: for every documented opcode at memory[pc] step() returns Ok with the
\* tuple (opcode, memory[pc+1], memory[pc+2]), the slots beyond the opcode's
\* length zero whatever memory holds there, and the decoder has advanced pc
\* by the opcode's length: 3 for LXI, SHLD, LHLD, STA, LDA, JMP, Jcc, CALL,
\* Ccc, 2 for MVI, ADI, ACI, SUI, SBI, ANI, XRI, ORI, CPI, IN, OUT, 1
\* otherwise.
C11_DecoderLengths ==
    SteppedDocumented
        => LET pc == prev.cpu.pc
               len == LengthOf(MemRead(prev.memory, prev.cpu.pc))
           IN  /\ last.result = "Ok"
               /\ last.instruction = TupleAt(prev.memory, pc, len)
               /\ fetch_instruction(prev.cpu, prev.memory, overflow_checks).cpu.pc
                      = (pc + len) % 65536
               /\ last.instruction[1] \notin PcWriters
                      => cpu.pc = (pc + len) % 65536

\* C11: step() was called with MVI A at 0xFFFF and has not returned
C11_MviAtTopPanics ==
    /\ last.op = "step"
    /\ last.result = "Panic"
    /\ prev.cpu.pc = \hFFFF
    /\ MemRead(prev.memory, prev.cpu.pc) = \h3E
    /\ overflow_checks

\* C12: the decoder's pc arithmetic is modulo 2^16 and never faults: an
\* instruction whose bytes or whose end pass 0xFFFF is returned by step()
\* with its operand bytes read at the wrapped addresses 0x0000 and 0x0001,
\* and leaves pc = (pc + length) mod 65536 (0x0000 for a 1-byte instruction
\* at 0xFFFF).
C12_DecoderWraps ==
    (/\ SteppedDocumented
     /\ prev.cpu.pc + LengthOf(MemRead(prev.memory, prev.cpu.pc)) > 65535)
        => LET pc == prev.cpu.pc
               len == LengthOf(MemRead(prev.memory, prev.cpu.pc))
           IN  /\ last.result = "Ok"
               /\ last.instruction[1] = MemRead(prev.memory, pc)
               /\ (len >= 2 /\ pc = \hFFFF) => last.instruction[2] = MemRead(prev.memory, 0)
               /\ (len = 3 /\ pc = \hFFFF) => last.instruction[3] = MemRead(prev.memory, 1)
               /\ (len = 3 /\ pc = \hFFFE) => last.instruction[3] = MemRead(prev.memory, 0)
               /\ last.instruction[1] \notin PcWriters
                      => cpu.pc = pc + len - 65536

\* C12: step() was called with a NOP at 0xFFFF in a build with overflow
\* checks and has not returned
C12_NopAtTopPanics ==
    /\ last.op = "step"
    /\ last.result = "Panic"
    /\ prev.cpu.pc = \hFFFF
    /\ MemRead(prev.memory, prev.cpu.pc) = \h00
    /\ overflow_checks

(***************************************************************************)
(* The accumulator arithmetic, stated in plain integer arithmetic on the   *)
(* machine before (prev) and after (cpu) the step.                          *)
(***************************************************************************)
\* the flag is set in the flag byte of cp
FlagOf(cp, flag) == (cp.condition_flags \div flag) % 2 = 1

\* bit i of x
BitOf(x, i) == (x \div (2 ^ i)) % 2

\* the second operand of the accumulator instruction "made": the immediate
\* byte of 0xC6..0xFE, the register or memory[HL] named by bits 0-2 otherwise
AluOperand(made) ==
    IF made.instruction[1] >= \hC0 THEN made.instruction[2]
    ELSE Operand(prev.cpu, prev.memory, made.instruction[1] % 8)

\* the carry or borrow that enters the instruction "made": Carry before the
\* step for the opcodes that take it, 0 for the others
CarryIn(made, opcodes) ==
    IF made.instruction[1] \in opcodes /\ FlagOf(prev.cpu, CARRY) THEN 1 ELSE 0

\* Parity, Zero and Sign of the machine are those of the byte
ParityZeroSignOf(byte) ==
    /\ FlagOf(cpu, PARITY) = ((BitOf(byte, 0) + BitOf(byte, 1) + BitOf(byte, 2)
                               + BitOf(byte, 3) + BitOf(byte, 4) + BitOf(byte, 5)
                               + BitOf(byte, 6) + BitOf(byte, 7)) % 2 = 0)
    /\ FlagOf(cpu, ZERO) = (byte = 0)
    /\ FlagOf(cpu, SIGN) = (byte >= 128)

AddOpcodes == (\h80..\h87) \cup {\hC6}
AdcOpcodes == (\h88..\h8F) \cup {\hCE}
SubOpcodes == (\h90..\h97) \cup {\hD6}
SbbOpcodes == (\h98..\h9F) \cup {\hDE}

\* A, Carry and Auxiliary Carry after x + y + c
SumIs(x, y, c) ==
    /\ cpu.a = (x + y + c) % 256
    /\ FlagOf(cpu, CARRY) = (x + y + c >= 256)
    /\ FlagOf(cpu, AUX_CARRY) = ((x % 16) + (y % 16) + c > 15)

\* C13: for every A, operand y and carry-in c (0 for ADD/ADI, Carry for
\* ADC/ACI), after the step A = (A + y + c) mod 256, Carry is set iff
\* A + y + c >= 256, and Auxiliary Carry is set iff the low nibbles and c sum
\* to more than 15.
C13_Addition ==
    StepExecuted(last, AddOpcodes \cup AdcOpcodes) =>
        SumIs(prev.cpu.a, AluOperand(last), CarryIn(last, AdcOpcodes))

\* ACI 0xF0 on A = 0x0F with Carry set: the low nibbles sum to exactly 15,
\* the carry-in makes both carries
C13_AciNibblesFifteen ==
    /\ StepExecuted(last, {\hCE})
    /\ prev.cpu.a = \h0F
    /\ last.instruction[2] = \hF0
    /\ FlagOf(prev.cpu, CARRY)
    /\ cpu.a = \h00
    /\ FlagOf(cpu, CARRY)
    /\ FlagOf(cpu, AUX_CARRY)

\* A, Carry and Auxiliary Carry after x - y - b
DifferenceIs(x, y, b) ==
    /\ cpu.a = (x + 256 - y - b) % 256
    /\ FlagOf(cpu, CARRY) = (x < y + b)
    /\ FlagOf(cpu, AUX_CARRY) = ((x % 16) + ((255 - y) % 16) + (1 - b) > 15)

\* C14: for every A, operand y and borrow-in b (0 for SUB/SUI, Carry for
\* SBB/SBI), after the step A = (A - y - b) mod 256, Carry is set iff
\* A < y + b, and Auxiliary Carry is the carry out of bit 3 of
\* A + (~y) + (1 - b); SUB A gives A = 0 with Carry clear, Auxiliary Carry and
\* Zero set; SBI 1 from A = 0 without borrow gives 0xFF, Carry set, Auxiliary
\* Carry clear.
C14_Subtraction ==
    StepExecuted(last, SubOpcodes \cup SbbOpcodes) =>
        /\ DifferenceIs(prev.cpu.a, AluOperand(last), CarryIn(last, SbbOpcodes))
        /\ last.instruction[1] = \h97 =>
               /\ cpu.a = 0
               /\ ~FlagOf(cpu, CARRY)
               /\ FlagOf(cpu, AUX_CARRY)
               /\ FlagOf(cpu, ZERO)
        /\ (/\ last.instruction[1] = \hDE
            /\ prev.cpu.a = 0
            /\ last.instruction[2] = 1
            /\ ~FlagOf(prev.cpu, CARRY)) =>
               /\ cpu.a = \hFF
               /\ FlagOf(cpu, CARRY)
               /\ ~FlagOf(cpu, AUX_CARRY)

\* SBI 1 on A = 0 with Carry clear
C14_SbiBelowZero ==
    /\ StepExecuted(last, {\hDE})
    /\ prev.cpu.a = \h00
    /\ last.instruction[2] = \h01
    /\ ~FlagOf(prev.cpu, CARRY)
    /\ cpu.a = \hFF
    /\ FlagOf(cpu, CARRY)
    /\ ~FlagOf(cpu, AUX_CARRY)

CmpOpcodes == (\hB8..\hBF) \cup {\hFE}

\* the five flags after comparing x with y, and the flag byte a SUB or SUI of
\* the same operands leaves
ComparisonIs(x, y, subtraction) ==
    /\ FlagOf(cpu, CARRY) = (x < y)
    /\ FlagOf(cpu, ZERO) = (x = y)
    /\ FlagOf(cpu, AUX_CARRY) = ((x % 16) + ((255 - y) % 16) + 1 > 15)
    /\ ParityZeroSignOf((x + 256 - y) % 256)
    /\ cpu.condition_flags = subtraction.cpu.condition_flags

\* C15: CMP r, CMP M and CPI leave A and the operand (every register, and
\* memory) as they were and write the five flags that SUB or SUI of the same
\* operands writes: Carry iff A < operand, Zero iff A = operand.
C15_Compare ==
    StepExecuted(last, CmpOpcodes) =>
        /\ cpu = [prev.cpu EXCEPT !.pc = cpu.pc, !.condition_flags = cpu.condition_flags]
        /\ memory = prev.memory
        /\ ComparisonIs(prev.cpu.a, AluOperand(last),
               execute_instruction(prev.cpu, prev.memory,
                   <<last.instruction[1] - \h28, last.instruction[2], last.instruction[3]>>))

\* CMP M with A = 0x00 below memory[HL] = 0x80
C15_CmpMemoryBelow ==
    /\ StepExecuted(last, {\hBE})
    /\ prev.cpu.a = \h00
    /\ MemRead(prev.memory, HL(prev.cpu)) = \h80
    /\ cpu.a = \h00
    /\ MemRead(memory, HL(cpu)) = \h80
    /\ FlagOf(cpu, CARRY)
    /\ ~FlagOf(cpu, ZERO)

AnaOpcodes == (\hA0..\hA7) \cup {\hE6}
XraOpcodes == (\hA8..\hAF) \cup {\hEE}
OraOpcodes == (\hB0..\hB7) \cup {\hF6}

\* x & y, x | y and x ^ y, bit by bit
AndOf(x, y) ==
    BitOf(x, 0) * BitOf(y, 0) + 2 * BitOf(x, 1) * BitOf(y, 1)
    + 4 * BitOf(x, 2) * BitOf(y, 2) + 8 * BitOf(x, 3) * BitOf(y, 3)
    + 16 * BitOf(x, 4) * BitOf(y, 4) + 32 * BitOf(x, 5) * BitOf(y, 5)
    + 64 * BitOf(x, 6) * BitOf(y, 6) + 128 * BitOf(x, 7) * BitOf(y, 7)

XorOf(x, y) == x + y - 2 * AndOf(x, y)

OrOf(x, y) == x + y - AndOf(x, y)

\* C16: for every A and operand y, ANA and ANI leave A & y in A, clear Carry,
\* and set Auxiliary Carry iff bit 3 of (A | y) is set, A being the
\* accumulator before the AND.
C16_And ==
    StepExecuted(last, AnaOpcodes) =>
        /\ cpu.a = AndOf(prev.cpu.a, AluOperand(last))
        /\ ~FlagOf(cpu, CARRY)
        /\ FlagOf(cpu, AUX_CARRY)
               = (BitOf(prev.cpu.a, 3) = 1 \/ BitOf(AluOperand(last), 3) = 1)

\* ANI 0x00 on A = 0x08 with every flag set: the result has bit 3 clear,
\* Auxiliary Carry stays set and Carry is cleared
C16_AniKeepsAuxCarry ==
    /\ StepExecuted(last, {\hE6})
    /\ prev.cpu.a = \h08
    /\ last.instruction[2] = \h00
    /\ FlagOf(prev.cpu, CARRY)
    /\ cpu.a = \h00
    /\ FlagOf(cpu, AUX_CARRY)
    /\ ~FlagOf(cpu, CARRY)

\* C17: for every A and operand y, ORA and ORI leave A | y in A, XRA and XRI
\* leave A ^ y, and all four clear Carry and Auxiliary Carry whatever they
\* were.
C17_OrXor ==
    StepExecuted(last, OraOpcodes \cup XraOpcodes) =>
        /\ cpu.a = IF last.instruction[1] \in OraOpcodes
                   THEN OrOf(prev.cpu.a, AluOperand(last))
                   ELSE XorOf(prev.cpu.a, AluOperand(last))
        /\ ~FlagOf(cpu, CARRY)
        /\ ~FlagOf(cpu, AUX_CARRY)

\* XRI 0x0F on A = 0x3C with Carry and Auxiliary Carry set
C17_XriClearsBoth ==
    /\ StepExecuted(last, {\hEE})
    /\ prev.cpu.a = \h3C
    /\ last.instruction[2] = \h0F
    /\ FlagOf(prev.cpu, CARRY)
    /\ FlagOf(prev.cpu, AUX_CARRY)
    /\ cpu.a = \h33
    /\ ~FlagOf(cpu, CARRY)
    /\ ~FlagOf(cpu, AUX_CARRY)

\* DAA, step 1 is taken: the low nibble of a is above 9, or Auxiliary Carry
DaaAdjustsLow(a, ac) == a % 16 > 9 \/ ac

\* DAA, the accumulator after step 1
DaaLowSum(a, ac) == IF DaaAdjustsLow(a, ac) THEN (a + 6) % 256 ELSE a

\* DAA, Carry after step 1: set when the addition of 6 overflows eight bits
DaaLowCarry(a, c, ac) == (DaaAdjustsLow(a, ac) /\ a + 6 > 255) \/ c

\* DAA, Auxiliary Carry after step 1: from a before the addition
DaaLowAuxCarry(a, ac) == IF DaaAdjustsLow(a, ac) THEN (a % 16) + 6 > 15 ELSE ac

\* DAA, step 2 is taken: the high nibble of a1 is above 9, or Carry
DaaAdjustsHigh(a1, c1) == a1 \div 16 > 9 \/ c1

\* DAA, the accumulator after step 2
DaaHighSum(a1, c1) == IF DaaAdjustsHigh(a1, c1) THEN (a1 + 96) % 256 ELSE a1

\* the machine after step 2 on (a1, c1, ac1), the outcome of step 1
DaaEnds(a1, c1, ac1) ==
    /\ cpu.a = DaaHighSum(a1, c1)
    /\ FlagOf(cpu, CARRY) = DaaAdjustsHigh(a1, c1)
    /\ FlagOf(cpu, AUX_CARRY) = ac1
    /\ ParityZeroSignOf(DaaHighSum(a1, c1))

\* C18: for every A, Carry and Auxiliary Carry, DAA adds 6 when the low
\* nibble is above 9 or Auxiliary Carry is set (Carry set on overflow,
\* Auxiliary Carry from the low nibble of A before the addition), then adds
\* 0x60 and sets Carry when the high nibble of the result is above 9 or Carry
\* is set; Parity, Zero and Sign come from the final A.  Carry is never
\* cleared, and Auxiliary Carry is kept when step 1 is skipped.  0x9B with
\* both flags clear gives 0x01 with both set; 0x73 with only Auxiliary Carry
\* gives 0x79 with Carry clear.
C18_Daa ==
    StepExecuted(last, {\h27}) =>
        /\ DaaEnds(DaaLowSum(prev.cpu.a, FlagOf(prev.cpu, AUX_CARRY)),
                   DaaLowCarry(prev.cpu.a, FlagOf(prev.cpu, CARRY),
                               FlagOf(prev.cpu, AUX_CARRY)),
                   DaaLowAuxCarry(prev.cpu.a, FlagOf(prev.cpu, AUX_CARRY)))
        /\ FlagOf(prev.cpu, CARRY) => FlagOf(cpu, CARRY)
        /\ ~DaaAdjustsLow(prev.cpu.a, FlagOf(prev.cpu, AUX_CARRY)) =>
               FlagOf(cpu, AUX_CARRY) = FlagOf(prev.cpu, AUX_CARRY)
        /\ (/\ prev.cpu.a = \h9B
            /\ ~FlagOf(prev.cpu, CARRY)
            /\ ~FlagOf(prev.cpu, AUX_CARRY)) =>
               cpu.a = \h01 /\ FlagOf(cpu, CARRY) /\ FlagOf(cpu, AUX_CARRY)
        /\ (/\ prev.cpu.a = \h73
            /\ ~FlagOf(prev.cpu, CARRY)
            /\ FlagOf(prev.cpu, AUX_CARRY)) =>
               cpu.a = \h79 /\ ~FlagOf(cpu, CARRY)

\* DAA on A = 0x9B with Carry and Auxiliary Carry clear: both steps are taken
C18_DaaBothSteps ==
    /\ StepExecuted(last, {\h27})
    /\ prev.cpu.a = \h9B
    /\ ~FlagOf(prev.cpu, CARRY)
    /\ ~FlagOf(prev.cpu, AUX_CARRY)
    /\ cpu.a = \h01
    /\ FlagOf(cpu, CARRY)
    /\ FlagOf(cpu, AUX_CARRY)

InrOpcodes == {\h04 + 8 * k : k \in 0..7}

\* the register or memory byte x became result by an increment (up) or a
\* decrement; Auxiliary Carry is the carry out of bit 3 of x + 1 or x + 0xFF
CountIs(x, result, up) ==
    /\ result = IF up THEN (x + 1) % 256 ELSE (x + 255) % 256
    /\ FlagOf(cpu, CARRY) = FlagOf(prev.cpu, CARRY)
    /\ FlagOf(cpu, AUX_CARRY) = IF up THEN x % 16 = 15 ELSE x % 16 # 0
    /\ ParityZeroSignOf(result)

\* C19: for B, C, D, E, H, L, A and M, every value and every flag state, INR
\* and DCR leave Carry as it was before the step, 0xFF + 1 and 0x00 - 1
\* included, and write Sign, Zero, Parity and Auxiliary Carry from the result.
C19_CountKeepsCarry ==
    StepExecuted(last, CountOpcodes) =>
        CountIs(Operand(prev.cpu, prev.memory, (last.instruction[1] \div 8) % 8),
                Operand(cpu, memory, (last.instruction[1] \div 8) % 8),
                last.instruction[1] \in InrOpcodes)

\* DCR M on memory[HL] = 0x00 with Carry clear: the byte wraps to 0xFF and
\* Carry stays clear
C19_DcrMemoryWraps ==
    /\ StepExecuted(last, {\h35})
    /\ MemRead(prev.memory, HL(prev.cpu)) = \h00
    /\ ~FlagOf(prev.cpu, CARRY)
    /\ MemRead(memory, HL(cpu)) = \hFF
    /\ ~FlagOf(cpu, CARRY)
    /\ FlagOf(cpu, SIGN)

MviRegisterOpcodes == MviOpcodes \ {\h36}

\* the processor cp with byte x in the register the MVI opcode names
WithRegister(cp, opcode, x) ==
    CASE opcode = \h06 -> [cp EXCEPT !.b = x]
      [] opcode = \h0E -> [cp EXCEPT !.c = x]
      [] opcode = \h16 -> [cp EXCEPT !.d = x]
      [] opcode = \h1E -> [cp EXCEPT !.e = x]
      [] opcode = \h26 -> [cp EXCEPT !.h = x]
      [] opcode = \h2E -> [cp EXCEPT !.l = x]
      [] opcode = \h3E -> [cp EXCEPT !.a = x]

\* C20: for every register r of B, C, D, E, H, L, A and every byte x, a step
\* that executes MVI r,x leaves x in r, moves PC on by 2, takes 7 states, and
\* changes no flag, no other register, not SP and not memory.
C20_MviRegister ==
    StepExecuted(last, MviRegisterOpcodes) =>
        /\ cpu = [WithRegister(prev.cpu, last.instruction[1], last.instruction[2])
                      EXCEPT !.pc = (prev.cpu.pc + 2) % 65536,
                             !.interruptable = cpu.interruptable]
        /\ last.instruction[2] = MemRead(prev.memory, (prev.cpu.pc + 1) % 65536)
        /\ memory = prev.memory
        /\ last.states = 7

\* MVI E,0xC3 over E = 0x5A
C20_MviE ==
    /\ StepExecuted(last, {\h1E})
    /\ prev.cpu.e = \h5A
    /\ last.instruction[2] = \hC3
    /\ cpu.e = \hC3
    /\ cpu.pc = prev.cpu.pc + 2
    /\ last.states = 7

(***************************************************************************)
(* Two steps in a row: in a state reached by one step, prev is the machine *)
(* before that step, and cpu' the machine after the next.                  *)
(***************************************************************************)
\* the two registers PUSH B, PUSH D or PUSH H stores, the high one first
PushedPair(cp, opcode) ==
    CASE opcode = \hC5 -> <<cp.b, cp.c>>
      [] opcode = \hD5 -> <<cp.d, cp.e>>
      [] opcode = \hE5 -> <<cp.h, cp.l>>

\* C21: for rp of B, D, H, every value of the pair and every SP, 0x0000 and
\* 0x0001 included, where the stack wraps, PUSH rp followed by POP rp leaves
\* both registers of the pair and SP as they were before the PUSH.
C21_PushPop ==
    [][(/\ StepExecuted(last, {\hC5, \hD5, \hE5})
        /\ StepExecuted(last', {last.instruction[1] - 4})) =>
           /\ PushedPair(cpu', last.instruction[1]) = PushedPair(prev.cpu, last.instruction[1])
           /\ cpu'.sp = prev.cpu.sp]_vars

\* POP B has run after PUSH B on SP = 0x0001: the pair went through
\* memory[0x0000] and memory[0xFFFF]
C21_PushPopAcrossZero ==
    /\ StepExecuted(last, {\hC1})
    /\ calls_left = 0
    /\ MemRead(memory, prev.cpu.pc - 1) = \hC5
    /\ prev.cpu.sp = \hFFFF
    /\ MemRead(memory, \h0000) = \hC9
    /\ MemRead(memory, \hFFFF) = \h5A
    /\ cpu.sp = \h0001
    /\ cpu.b = \hC9
    /\ cpu.c = \h5A

\* a byte as a flag byte: bits 3 and 5 clear, bit 1 set
MaskedFlags(byte) == OrOf(AndOf(byte, \hD7), \h02)

\* C22: PUSH PSW followed by POP PSW gives back A, and F with bits 3 and 5
\* clear and bit 1 set, and SP; PUSH PSW stores A at SP-1 and F at SP-2; POP
\* PSW of any byte on the stack leaves F = (byte & 0xD7) | 0x02.
C22_PushPopPsw ==
    [][/\ (StepExecuted(last, {\hF5}) /\ StepExecuted(last', {\hF1})) =>
              /\ cpu'.a = prev.cpu.a
              /\ cpu'.condition_flags = MaskedFlags(prev.cpu.condition_flags)
              /\ cpu'.sp = prev.cpu.sp
       /\ StepExecuted(last', {\hF5}) =>
              /\ MemRead(memory', (cpu.sp + 65535) % 65536) = cpu.a
              /\ MemRead(memory', (cpu.sp + 65534) % 65536) = cpu.condition_flags
       /\ StepExecuted(last', {\hF1}) =>
              cpu'.condition_flags = MaskedFlags(MemRead(memory, cpu.sp))]_vars

\* POP PSW has run after PUSH PSW on SP = 0x0000 with A = 0xC9 and every
\* flag set
C22_PswAcrossZero ==
    /\ StepExecuted(last, {\hF1})
    /\ calls_left = 0
    /\ MemRead(memory, prev.cpu.pc - 1) = \hF5
    /\ prev.cpu.sp = \hFFFE
    /\ MemRead(memory, \hFFFF) = \hC9
    /\ MemRead(memory, \hFFFE) = \hD7
    /\ cpu.sp = \h0000
    /\ cpu.a = \hC9
    /\ cpu.condition_flags = \hD7

\* C23: two XCHG in a row leave B, C, D, E, H, L as they were; one XCHG
\* swaps H with D and L with E and changes no flag, not A, not SP and not
\* memory.
C23_Xchg ==
    [][/\ (StepExecuted(last, {\hEB}) /\ StepExecuted(last', {\hEB})) =>
              <<cpu'.b, cpu'.c, cpu'.d, cpu'.e, cpu'.h, cpu'.l>>
                  = <<prev.cpu.b, prev.cpu.c, prev.cpu.d, prev.cpu.e, prev.cpu.h, prev.cpu.l>>
       /\ StepExecuted(last', {\hEB}) =>
              /\ cpu'.h = cpu.d /\ cpu'.d = cpu.h
              /\ cpu'.l = cpu.e /\ cpu'.e = cpu.l
              /\ cpu'.condition_flags = cpu.condition_flags
              /\ cpu'.a = cpu.a
              /\ cpu'.sp = cpu.sp
              /\ memory' = memory]_vars

\* the second XCHG of two has run on H = 0x5A, D = 0xC9, the values the
\* first left
C23_XchgTwice ==
    /\ StepExecuted(last, {\hEB})
    /\ calls_left = 0
    /\ MemRead(memory, prev.cpu.pc - 1) = \hEB
    /\ prev.cpu.h = \h5A /\ prev.cpu.d = \hC9
    /\ prev.cpu.l = \hC9 /\ prev.cpu.e = \h5A
    /\ cpu.h = \hC9 /\ cpu.d = \h5A
    /\ cpu.l = \h5A /\ cpu.e = \hC9

\* C24: a step that executes CALL X at address P, followed at once by a
\* step that executes RET, leaves PC = P + 3, the address after the CALL, and
\* SP as it was before the CALL, for every SP and X.
C24_CallRet ==
    [][(StepExecuted(last, {\hCD}) /\ StepExecuted(last', {\hC9})) =>
           /\ cpu'.pc = (prev.cpu.pc + 3) % 65536
           /\ cpu'.sp = prev.cpu.sp]_vars

\* the RET at 0x0200 has run after CALL 0x0200 at 0x0100 on SP = 0x0000
C24_CallRetAcrossZero ==
    /\ StepExecuted(last, {\hC9})
    /\ calls_left = 0
    /\ MemRead(memory, \h0100) = \hCD
    /\ prev.cpu.pc = \h0200
    /\ prev.cpu.sp = \hFFFE
    /\ cpu.pc = \h0103
    /\ cpu.sp = \h0000

(***************************************************************************)
(* Conditional control flow, calls and restarts, of one step.              *)
(***************************************************************************)
\* the flag test named by bits 3-5 of the opcode, on the flags of cp:
\* NZ Z NC C PO PE P M
TestHolds(cp, opcode) ==
    CASE (opcode \div 8) % 8 = 0 -> ~FlagOf(cp, ZERO)
      [] (opcode \div 8) % 8 = 1 -> FlagOf(cp, ZERO)
      [] (opcode \div 8) % 8 = 2 -> ~FlagOf(cp, CARRY)
      [] (opcode \div 8) % 8 = 3 -> FlagOf(cp, CARRY)
      [] (opcode \div 8) % 8 = 4 -> ~FlagOf(cp, PARITY)
      [] (opcode \div 8) % 8 = 5 -> FlagOf(cp, PARITY)
      [] (opcode \div 8) % 8 = 6 -> ~FlagOf(cp, SIGN)
      [] (opcode \div 8) % 8 = 7 -> FlagOf(cp, SIGN)

\* the address in the second and third byte of the instruction
TargetOf(instruction) == instruction[2] + 256 * instruction[3]

\* the step went to pc with the stack pointer moved by delta, in n states
WentTo(pc, delta, n) ==
    /\ cpu.pc = pc
    /\ cpu.sp = (prev.cpu.sp + 65536 + delta) % 65536
    /\ last.states = n

\* the step fell through an instruction of len bytes in n states
FellThrough(len, n) ==
    /\ cpu.pc = (prev.cpu.pc + len) % 65536
    /\ cpu.sp = prev.cpu.sp
    /\ memory = prev.memory
    /\ last.states = n

\* C25: each of the eight conditions is taken iff its flag test holds (NZ/Z
\* on Zero, NC/C on Carry, PO/PE on Parity, P/M on Sign).  Jcc takes 10
\* states either way, Ccc 17 taken and 11 not, Rcc 11 taken and 5 not.  Not
\* taken, PC is the address after the instruction and SP and memory are as
\* before.
C25_Conditional ==
    /\ StepExecuted(last, JccOpcodes) =>
           IF TestHolds(prev.cpu, last.instruction[1])
           THEN WentTo(TargetOf(last.instruction), 0, 10)
           ELSE FellThrough(3, 10)
    /\ StepExecuted(last, CccOpcodes) =>
           IF TestHolds(prev.cpu, last.instruction[1])
           THEN WentTo(TargetOf(last.instruction), -2, 17)
           ELSE FellThrough(3, 11)
    /\ StepExecuted(last, RccOpcodes) =>
           IF TestHolds(prev.cpu, last.instruction[1])
           THEN WentTo(MemRead(prev.memory, prev.cpu.sp)
                           + 256 * MemRead(prev.memory, (prev.cpu.sp + 1) % 65536),
                       2, 11)
           ELSE FellThrough(1, 5)

\* CPE 0x0200 on SP = 0x0001 with Parity set and Zero clear is taken
C25_CpeTaken ==
    /\ StepExecuted(last, {\hEC})
    /\ prev.cpu.condition_flags = \h06
    /\ prev.cpu.sp = \h0001
    /\ cpu.pc = \h0200
    /\ cpu.sp = \hFFFF
    /\ last.states = 17

\* the step pushed the return address, high byte at SP-1 and low byte at
\* SP-2, took 2 off SP and went to target
Called(return_address, target) ==
    /\ MemRead(memory, (prev.cpu.sp + 65535) % 65536) = return_address \div 256
    /\ MemRead(memory, (prev.cpu.sp + 65534) % 65536) = return_address % 256
    /\ cpu.sp = (prev.cpu.sp + 65534) % 65536
    /\ cpu.pc = target

\* C26: CALL, a taken Ccc and RST n executed by a step push the return
\* address, PC after decoding, high byte at SP-1 and low byte at SP-2; SP goes
\* down by 2 and PC becomes the target.  The target of RST n is
\* opcode & 0x38 = 8 * n, and RST n takes 11 states.
C26_CallPushes ==
    /\ (\/ StepExecuted(last, {\hCD})
        \/ StepExecuted(last, CccOpcodes) /\ TestHolds(prev.cpu, last.instruction[1])) =>
           Called((prev.cpu.pc + 3) % 65536, TargetOf(last.instruction))
    /\ StepExecuted(last, RstOpcodes) =>
           /\ Called((prev.cpu.pc + 1) % 65536, 8 * ((last.instruction[1] \div 8) % 8))
           /\ cpu.pc = AndOf(last.instruction[1], \h38)
           /\ last.states = 11

\* RST 7 at 0x0100 on SP = 0x0000: 0x0101 goes to 0xFFFF and 0xFFFE
C26_RstAcrossZero ==
    /\ StepExecuted(last, {\hFF})
    /\ prev.cpu.pc = \h0100
    /\ prev.cpu.sp = \h0000
    /\ MemRead(memory, \hFFFF) = \h01
    /\ MemRead(memory, \hFFFE) = \h01
    /\ cpu.sp = \hFFFE
    /\ cpu.pc = \h0038
    /\ last.states = 11

(***************************************************************************)
(* Loading and construction.                                               *)
(***************************************************************************)
\* the load (bytes at start_address) succeeded: every byte of the file lies
\* in memory from start_address on, and the address past the last is returned
LoadSucceeded(made, bytes, start_address) ==
    /\ made.result = "Ok"
    /\ \A i \in 1..Len(bytes) : MemRead(memory, start_address + i - 1) = bytes[i]
    /\ made.end_address = (start_address + Len(bytes)) % 65536

\* C27: a load of len bytes at start_addr fails with TooLarge iff
\* start_addr + len > 65536; whenever start_addr + len <= 65536, the exact
\* fit start_addr + len = 65536 included, the load succeeds, copies all len
\* bytes to start_addr .. start_addr + len - 1 and returns the address past
\* the region written.
C27_LoadFits ==
    last.op = "load" =>
        /\ (last.result = "TooLargeFile")
               = (last.start_address + Len(last.bytes) > 65536)
        /\ last.start_address + Len(last.bytes) <= 65536 =>
               LoadSucceeded(last, last.bytes, last.start_address)

\* a file of one byte loaded at 0xFFFF, the exact fit, panics
C27_ExactFitPanics ==
    /\ last.op = "load"
    /\ last.start_address = \hFFFF
    /\ Len(last.bytes) = 1
    /\ last.result = "Panic"
    /\ memory = prev.memory

\* the processor of a system just built: every register and SP zero,
\* F = 0x02, not halted, the latch Disabled
FreshCpu ==
    /\ <<cpu.b, cpu.c, cpu.d, cpu.e, cpu.h, cpu.l, cpu.a, cpu.sp>>
           = <<0, 0, 0, 0, 0, 0, 0, 0>>
    /\ cpu.condition_flags = \h02
    /\ ~cpu.is_halted
    /\ cpu.interruptable = Disabled

\* the memory of a system just built from a ROM of ProgLen bytes: the ROM
\* from pc on, zero everywhere else
FreshMemory ==
    /\ cpu.pc \in StartAddresses
    /\ \A address \in DOMAIN memory : address \in cpu.pc..(cpu.pc + ProgLen - 1)
    /\ \A i \in 0..(ProgLen - 1) : MemRead(memory, cpu.pc + i) \in RomBytes

\* the call made on the system is an interrupt(): it is rejected and leaves
\* the system as it was
FirstInterruptFails ==
    last'.op = "interrupt" =>
        /\ last'.result = "InterruptNotEnabled"
        /\ cpu' = cpu
        /\ memory' = memory

C29_FlagsDescribeResult ==
    /\ StepExecuted(last, AddOpcodes \cup AdcOpcodes \cup SubOpcodes \cup SbbOpcodes
                              \cup AnaOpcodes \cup XraOpcodes \cup OraOpcodes \cup {\h27}) =>
           ParityZeroSignOf(cpu.a)
    /\ StepExecuted(last, CmpOpcodes) =>
           ParityZeroSignOf((prev.cpu.a + 256 - AluOperand(last)) % 256)
    /\ StepExecuted(last, CountOpcodes) =>
           ParityZeroSignOf(Operand(cpu, memory, (last.instruction[1] \div 8) % 8))

\* ADI 0x01 on A = 0x7F: the sum 0x80 has one bit set, Sign is set, Parity
\* and Zero are clear
C29_AdiToSign ==
    /\ StepExecuted(last, {\hC6})
    /\ prev.cpu.a = \h7F
    /\ last.instruction[2] = \h01
    /\ cpu.a = \h80
    /\ FlagOf(cpu, SIGN)
    /\ ~FlagOf(cpu, PARITY)
    /\ ~FlagOf(cpu, ZERO)

\* C30: an Enabled latch stays Enabled across every step that does not
\* execute DI; EI executed while the latch is Enabled or Enabling does not
\* send it back to Enabling, so that no new delay of one instruction begins
\* and an interrupt() right after such an EI is accepted.
C30_EnabledStays ==
    [][/\ (/\ cpu.interruptable = Enabled
           /\ last'.op = "step"
           /\ ~StepExecuted(last', {\hF3})) =>
              cpu'.interruptable = Enabled
       /\ (/\ cpu.interruptable \in {Enabling, Enabled}
           /\ StepExecuted(last', {\hFB})) =>
              cpu'.interruptable = Enabled
       /\ (/\ StepExecuted(last, {\hFB})
           /\ prev.cpu.interruptable \in {Enabling, Enabled}
           /\ last'.op = "interrupt") =>
              last'.result = "Ok"]_vars

\* an interrupt() was accepted as the second call, right after the step that
\* executed the EI at OpPc: the latch was Enabling or Enabled before that EI,
\* since EI on a Disabled latch leaves it Enabling
C30_AcceptedAfterEi ==
    /\ InterruptAccepted(last)
    /\ calls_left = OpCalls - 2
    /\ MemRead(prev.memory, OpPc) = \hFB
    /\ prev.cpu.pc = OpPc + 1
    /\ prev.cpu.interruptable = Enabled

(***************************************************************************)
(* The accumulator, the register pairs and the stack, checked on SpecReg.  *)
(* The state formulas read the machine before (prev) and after (cpu) the   *)
(* step made last; in the formulas of two steps, "last" is the first step, *)
(* prev the machine before it, and cpu' the machine after the second.      *)
(***************************************************************************)
\* every flag but Carry is as it was before the step
OnlyCarryMayChange ==
    \A flag \in {ALWAYS_ONE, PARITY, AUX_CARRY, ZERO, SIGN} :
        FlagOf(cpu, flag) = FlagOf(prev.cpu, flag)

\* C31: for every A and Carry, RLC leaves Carry = bit 7 of A and A rotated
\* left by one; RRC leaves Carry = bit 0 and A rotated right by one; RAL
\* leaves A = (2A mod 256) + Carry and Carry = bit 7; RAR leaves
\* A = (A div 2) + 128 * Carry and Carry = bit 0.  Each takes 4 states and
\* changes no flag but Carry.
C31_Rotates ==
    StepExecuted(last, RotateOpcodes) =>
        /\ last.instruction[1] = \h07 =>
              /\ cpu.a = ((2 * prev.cpu.a) % 256) + BitOf(prev.cpu.a, 7)
              /\ FlagOf(cpu, CARRY) = (BitOf(prev.cpu.a, 7) = 1)
        /\ last.instruction[1] = \h0F =>
              /\ cpu.a = (prev.cpu.a \div 2) + 128 * BitOf(prev.cpu.a, 0)
              /\ FlagOf(cpu, CARRY) = (BitOf(prev.cpu.a, 0) = 1)
        /\ last.instruction[1] = \h17 =>
              /\ cpu.a = ((2 * prev.cpu.a) % 256) + CarryIn(last, {\h17})
              /\ FlagOf(cpu, CARRY) = (BitOf(prev.cpu.a, 7) = 1)
        /\ last.instruction[1] = \h1F =>
              /\ cpu.a = (prev.cpu.a \div 2) + 128 * CarryIn(last, {\h1F})
              /\ FlagOf(cpu, CARRY) = (BitOf(prev.cpu.a, 0) = 1)
        /\ last.states = 4
        /\ OnlyCarryMayChange

\* C31: a RAR has moved a set Carry into bit 7 of A and a clear bit 0 into
\* Carry, with the other flags set
C31_RarCarryIn ==
    /\ StepExecuted(last, {\h1F})
    /\ prev.cpu.a = \h7E
    /\ prev.cpu.condition_flags = \hD7
    /\ cpu.a = \hBF
    /\ cpu.condition_flags = \hD6

\* C39: for every A and Carry, RAL followed by RAR and RAR followed by RAL
\* leave A and Carry as they were before the first; RLC followed by RRC and
\* RRC followed by RLC leave A as it was.
C39_RotateInverses ==
    [][/\ (StepExecuted(last, {\h17, \h1F}) /\ StepExecuted(last', {\h17, \h1F})
              /\ last'.instruction[1] # last.instruction[1]) =>
             /\ cpu'.a = prev.cpu.a
             /\ FlagOf(cpu', CARRY) = FlagOf(prev.cpu, CARRY)
       /\ (StepExecuted(last, {\h07, \h0F}) /\ StepExecuted(last', {\h07, \h0F})
              /\ last'.instruction[1] # last.instruction[1]) =>
             cpu'.a = prev.cpu.a]_vars

\* RAL has run after RAR on A = 0x80 with Carry set: the RAR left 0xC0 and
\* Carry clear, the RAL brought back 0x80 and Carry
C39_RalAfterRar ==
    /\ StepExecuted(last, {\h17})
    /\ calls_left = 0
    /\ MemRead(memory, prev.cpu.pc - 1) = \h1F
    /\ prev.cpu.a = \hC0
    /\ prev.cpu.condition_flags = \hD6
    /\ cpu.a = \h80
    /\ cpu.condition_flags = \hD7

\* the register pair that bits 4-5 of the opcode name, as a number
PairNamed(cp, opcode) ==
    CASE (opcode \div 16) % 4 = 0 -> 256 * cp.b + cp.c
      [] (opcode \div 16) % 4 = 1 -> 256 * cp.d + cp.e
      [] (opcode \div 16) % 4 = 2 -> 256 * cp.h + cp.l
      [] (opcode \div 16) % 4 = 3 -> cp.sp

\* C32: DAD rp, for rp of B, D, H and SP, leaves HL = (HL + rp) mod 65536 and
\* Carry set iff HL + rp >= 65536, and Sign, Zero, Parity and Auxiliary Carry
\* as they were; INX rp and DCX rp leave the pair one more and one less
\* modulo 65536 and every flag as it was.
C32_PairArithmetic ==
    /\ StepExecuted(last, DadOpcodes) =>
          /\ 256 * cpu.h + cpu.l
                 = (256 * prev.cpu.h + prev.cpu.l
                        + PairNamed(prev.cpu, last.instruction[1])) % 65536
          /\ FlagOf(cpu, CARRY)
                 = (256 * prev.cpu.h + prev.cpu.l
                        + PairNamed(prev.cpu, last.instruction[1]) >= 65536)
          /\ OnlyCarryMayChange
    /\ StepExecuted(last, InxOpcodes) =>
          /\ PairNamed(cpu, last.instruction[1])
                 = (PairNamed(prev.cpu, last.instruction[1]) + 1) % 65536
          /\ cpu.condition_flags = prev.cpu.condition_flags
    /\ StepExecuted(last, DcxOpcodes) =>
          /\ PairNamed(cpu, last.instruction[1])
                 = (PairNamed(prev.cpu, last.instruction[1]) + 65535) % 65536
          /\ cpu.condition_flags = prev.cpu.condition_flags

\* C32: DAD SP has added SP = 0x0001 to HL = 0xFFFF: HL is 0x0000, Carry is
\* set and Zero is still clear
C32_DadSpWraps ==
    /\ StepExecuted(last, {\h39})
    /\ prev.cpu.h = \hFF /\ prev.cpu.l = \hFF
    /\ prev.cpu.sp = \h0001
    /\ prev.cpu.condition_flags = \h02
    /\ cpu.h = \h00 /\ cpu.l = \h00
    /\ cpu.condition_flags = \h03

\* C33: XTHL leaves in L the byte that was at memory[SP] and in H the byte
\* that was at memory[SP+1], the address taken modulo 65536, and at those
\* addresses the old L and H; SP, the flags and the other registers are as
\* before, and it takes 18 states.  Two XTHL in a row leave H, L and both
\* stack bytes as they were before the first.
C33_Xthl ==
    [][/\ StepExecuted(last', {\hE3}) =>
              /\ cpu'.l = MemRead(memory, cpu.sp)
              /\ cpu'.h = MemRead(memory, (cpu.sp + 1) % 65536)
              /\ MemRead(memory', cpu.sp) = cpu.l
              /\ MemRead(memory', (cpu.sp + 1) % 65536) = cpu.h
              /\ cpu'.sp = cpu.sp
              /\ cpu'.condition_flags = cpu.condition_flags
              /\ <<cpu'.a, cpu'.b, cpu'.c, cpu'.d, cpu'.e>>
                     = <<cpu.a, cpu.b, cpu.c, cpu.d, cpu.e>>
              /\ last'.states = 18
       /\ (StepExecuted(last, {\hE3}) /\ StepExecuted(last', {\hE3})) =>
              /\ cpu'.h = prev.cpu.h
              /\ cpu'.l = prev.cpu.l
              /\ MemRead(memory', cpu.sp) = MemRead(prev.memory, cpu.sp)
              /\ MemRead(memory', (cpu.sp + 1) % 65536)
                     = MemRead(prev.memory, (cpu.sp + 1) % 65536)]_vars

\* the second XTHL of two has run on SP = 0xFFFF: HL = 0x7FFF is back, and
\* 0x0100 is back at memory[0xFFFF] and memory[0x0000]
C33_XthlTwiceAcrossTop ==
    /\ StepExecuted(last, {\hE3})
    /\ calls_left = 0
    /\ MemRead(memory, prev.cpu.pc - 1) = \hE3
    /\ cpu.sp = \hFFFF
    /\ prev.cpu.h = \h01 /\ prev.cpu.l = \h00
    /\ MemRead(prev.memory, \hFFFF) = \hFF /\ MemRead(prev.memory, \h0000) = \h7F
    /\ cpu.h = \h7F /\ cpu.l = \hFF
    /\ MemRead(memory, \hFFFF) = \h00 /\ MemRead(memory, \h0000) = \h01

\* the two bytes a PUSH stores, the one for SP-1 first
PushedBytes(cp, opcode) ==
    IF opcode = \hF5 THEN <<cp.a, cp.condition_flags>> ELSE PushedPair(cp, opcode)

\* the two bytes CALL or RST at address pc stores: the address after it,
\* modulo 65536
ReturnBytes(pc, opcode) ==
    IF opcode = \hCD THEN <<((pc + 3) % 65536) \div 256, (pc + 3) % 256>>
    ELSE <<((pc + 1) % 65536) \div 256, (pc + 1) % 256>>

\* the step stored high and low below an SP of 0x0000 or 0x0001 and took 2
\* off SP
StoredBelowZero(stored) ==
    /\ prev.cpu.sp = \h0000 =>
          /\ MemRead(memory, \hFFFF) = stored[1]
          /\ MemRead(memory, \hFFFE) = stored[2]
          /\ cpu.sp = \hFFFE
    /\ prev.cpu.sp = \h0001 =>
          /\ MemRead(memory, \h0000) = stored[1]
          /\ MemRead(memory, \hFFFF) = stored[2]
          /\ cpu.sp = \hFFFF

\* the register POP loads from SP, and the one it loads from SP+1
PoppedLow(cp, opcode) ==
    CASE opcode = \hC1 -> cp.c [] opcode = \hD1 -> cp.e
      [] opcode = \hE1 -> cp.l [] opcode = \hF1 -> cp.condition_flags

PoppedHigh(cp, opcode) ==
    CASE opcode = \hC1 -> cp.b [] opcode = \hD1 -> cp.d
      [] opcode = \hE1 -> cp.h [] opcode = \hF1 -> cp.a

\* C34: the addresses the executor computes are taken modulo 65536 and the
\* step returns Ok in either build.  LHLD and SHLD at address 0xFFFF use
\* 0xFFFF for L and 0x0000 for H.  PUSH, CALL and RST with SP = 0x0000 store
\* at 0xFFFF and 0xFFFE and leave SP = 0xFFFE; with SP = 0x0001 they store at
\* 0x0000 and 0xFFFF and leave SP = 0xFFFF.  POP and RET with SP = 0xFFFF
\* read the low byte at 0xFFFF and the high byte at 0x0000 and leave
\* SP = 0x0001.
C34_AddressesWrap ==
    /\ calls_left = RegCalls - 1 => last.result = "Ok"
    /\ (StepExecuted(last, {\h2A}) /\ TargetOf(last.instruction) = \hFFFF) =>
          /\ cpu.l = MemRead(prev.memory, \hFFFF)
          /\ cpu.h = MemRead(prev.memory, \h0000)
    /\ (StepExecuted(last, {\h22}) /\ TargetOf(last.instruction) = \hFFFF) =>
          /\ MemRead(memory, \hFFFF) = prev.cpu.l
          /\ MemRead(memory, \h0000) = prev.cpu.h
    /\ StepExecuted(last, PushOpcodes) =>
          StoredBelowZero(PushedBytes(prev.cpu, last.instruction[1]))
    /\ StepExecuted(last, RstOpcodes \cup {\hCD}) =>
          StoredBelowZero(ReturnBytes(prev.cpu.pc, last.instruction[1]))
    /\ (StepExecuted(last, PopOpcodes) /\ prev.cpu.sp = \hFFFF) =>
          /\ PoppedLow(cpu, last.instruction[1])
                 = IF last.instruction[1] = \hF1
                   THEN MaskedFlags(MemRead(prev.memory, \hFFFF))
                   ELSE MemRead(prev.memory, \hFFFF)
          /\ PoppedHigh(cpu, last.instruction[1]) = MemRead(prev.memory, \h0000)
          /\ cpu.sp = \h0001
    /\ (StepExecuted(last, {\hC9}) /\ prev.cpu.sp = \hFFFF) =>
          /\ cpu.pc = MemRead(prev.memory, \hFFFF) + 256 * MemRead(prev.memory, \h0000)
          /\ cpu.sp = \h0001

\* C34: LHLD 0xFFFF has loaded L = 0xFF from memory[0xFFFF] and H = 0x7F from
\* memory[0x0000]
C34_LhldAcrossTop ==
    /\ StepExecuted(last, {\h2A})
    /\ TargetOf(last.instruction) = \hFFFF
    /\ MemRead(prev.memory, \hFFFF) = \hFF
    /\ MemRead(prev.memory, \h0000) = \h7F
    /\ prev.cpu.h = \h00 /\ prev.cpu.l = \h01
    /\ cpu.h = \h7F /\ cpu.l = \hFF

\* the register that DCR r decrements
Decremented(cp, opcode) ==
    CASE opcode = \h05 -> cp.b [] opcode = \h0D -> cp.c
      [] opcode = \h15 -> cp.d [] opcode = \h1D -> cp.e
      [] opcode = \h25 -> cp.h [] opcode = \h2D -> cp.l
      [] opcode = \h3D -> cp.a

\* the register of the two DCR that is not A
OtherThanA(first, second) == IF first = \h3D THEN second ELSE first

\* C35: DCR A and DCR r, for r of B, C, D, E, H, L, run one after the other
\* in either order on registers that hold the same value, leave the same
\* value in A and in r and the same Sign, Zero, Parity, Auxiliary Carry and
\* Carry, for every value and every flag state, and take the same number of
\* states.
C35_DcrASameAsDcr ==
    [][(/\ StepExecuted(last, DcrRegisterOpcodes \cup {\h3D})
        /\ StepExecuted(last', DcrRegisterOpcodes \cup {\h3D})
        /\ (last.instruction[1] = \h3D) # (last'.instruction[1] = \h3D)
        /\ prev.cpu.a = Decremented(prev.cpu,
                                    OtherThanA(last.instruction[1], last'.instruction[1]))) =>
           /\ cpu'.a = Decremented(cpu', OtherThanA(last.instruction[1], last'.instruction[1]))
           /\ cpu'.a = (prev.cpu.a + 255) % 256
           /\ cpu'.condition_flags = cpu.condition_flags
           /\ last'.states = last.states]_vars

\* DCR A has run after DCR B, both on 0x80 with Carry set: Sign is clear
\* after each, Carry is still set, and the flags are the same
C35_DcrAClearsSign ==
    /\ StepExecuted(last, {\h3D})
    /\ calls_left = 0
    /\ MemRead(memory, prev.cpu.pc - 1) = \h05
    /\ prev.cpu.a = \h80 /\ prev.cpu.b = \h7F
    /\ prev.cpu.condition_flags = \h03
    /\ cpu.a = \h7F
    /\ cpu.condition_flags = \h03

\* the number a packed-BCD byte stands for, and the packed-BCD byte of a
\* number below 100
DecimalOf(byte) == 10 * (byte \div 16) + (byte % 16)
PackedBcdOf(n) == 16 * (n \div 10) + (n % 10)

\* A and Carry are those of the decimal sum "total"
DecimalSumIs(total) ==
    /\ cpu'.a = PackedBcdOf(total % 100)
    /\ FlagOf(cpu', CARRY) = (total >= 100)

\* C38: for packed-BCD bytes x in A and y in B and carry-in c (0 for ADD, Carry
\* for ADC), ADD B or ADC B followed by DAA leaves in A the packed-BCD byte of
\* (x + y + c) mod 100, read as decimal numbers, and Carry set iff
\* x + y + c >= 100.
C38_DecimalAddition ==
    [][(/\ StepExecuted(last, {\h80, \h88})
        /\ StepExecuted(last', {\h27})
        /\ prev.cpu.a \in PackedBcd
        /\ prev.cpu.b \in PackedBcd) =>
           DecimalSumIs(DecimalOf(prev.cpu.a) + DecimalOf(prev.cpu.b)
                            + CarryIn(last, {\h88}))]_vars

\* DAA has run after ADC B of 99 + 99 + 1: the ADC left 0x33 with Carry and
\* Auxiliary Carry, the DAA left 0x99 and Carry
C38_NinetyNineTwice ==
    /\ StepExecuted(last, {\h27})
    /\ calls_left = 0
    /\ MemRead(memory, prev.cpu.pc - 1) = \h88
    /\ prev.cpu.b = \h99
    /\ prev.cpu.a = \h33
    /\ FlagOf(prev.cpu, CARRY) /\ FlagOf(prev.cpu, AUX_CARRY)
    /\ cpu.a = \h99
    /\ FlagOf(cpu, CARRY)

(***************************************************************************)
(* The halted flag and the latch, checked on Spec and SpecOp.              *)
(***************************************************************************)
\* C36: in every state that step() and interrupt() calls reach from
\* construction, the machine is not both halted and in the latch state
\* Enabling: a halted machine has the latch Disabled or Enabled.
C36_HaltedNeverEnabling ==
    cpu.is_halted => cpu.interruptable \in {Disabled, Enabled}

\* C36: HLT has run right after EI: the machine is halted and the latch, which
\* was Enabling before the HLT, is Enabled
C36_HaltedAfterEi ==
    /\ StepExecuted(last, {\h76})
    /\ MemRead(memory, prev.cpu.pc - 1) = \hFB
    /\ ~prev.cpu.is_halted
    /\ prev.cpu.interruptable = Enabling
    /\ cpu.is_halted
    /\ cpu.interruptable = Enabled

\* C37: from a state with the halted flag set and the latch Disabled, every
\* step() returns Halted, every interrupt() returns InterruptNotEnabled, and
\* the call leaves the processor and the memory as they were, so the state
\* after it is again halted with the latch Disabled.
C37_PermanentHalt ==
    [][(cpu.is_halted /\ cpu.interruptable = Disabled) =>
           /\ last'.op = "step" => last'.result = "Halted"
           /\ last'.op = "interrupt" => last'.result = "InterruptNotEnabled"
           /\ cpu' = cpu
           /\ memory' = memory]_vars

\* C37: an interrupt() has been rejected by a machine that a HLT injected
\* through interrupt() had halted with the latch Disabled: the instruction
\* below PC is not a HLT
C37_RejectedWhileHalted ==
    /\ InterruptRejected(last)
    /\ prev.cpu.is_halted
    /\ prev.cpu.interruptable = Disabled
    /\ MemRead(memory, prev.cpu.pc - 1) # \h76
    /\ cpu = prev.cpu
    /\ memory = prev.memory

(***************************************************************************)
(* The memory an instruction may change, checked on SpecOp for each of the *)
(* 256 opcodes, executed by step() and by interrupt().                     *)
(***************************************************************************)
\* the addresses whose byte differs from the one before the call
ChangedAddresses ==
    {address \in DOMAIN memory \cup DOMAIN prev.memory :
         MemRead(memory, address) # MemRead(prev.memory, address)}

\* the addresses the instruction with this opcode and address operand names
\* as written, on the registers of cp: the immediate address (STA) and its
\* successor (SHLD), BC and DE (STAX), HL (MOV M,r, MVI M, INR M, DCR M),
\* SP-1 and SP-2 (PUSH, CALL and its undocumented opcodes, RST, taken Ccc),
\* SP and SP+1 (XTHL); none for every other opcode
NamedAddresses(cp, opcode, target) ==
    CASE opcode = \h32 -> {target}
      [] opcode = \h22 -> {target, (target + 1) % 65536}
      [] opcode = \h02 -> {256 * cp.b + cp.c}
      [] opcode = \h12 -> {256 * cp.d + cp.e}
      [] opcode \in ((\h70..\h77) \ {\h76}) \cup {\h36, \h34, \h35} ->
           {256 * cp.h + cp.l}
      [] opcode \in PushOpcodes \cup RstOpcodes \cup {\hCD, \hDD, \hED, \hFD} ->
           {(cp.sp + 65535) % 65536, (cp.sp + 65534) % 65536}
      [] opcode \in CccOpcodes /\ TestHolds(cp, opcode) ->
           {(cp.sp + 65535) % 65536, (cp.sp + 65534) % 65536}
      [] opcode = \hE3 -> {cp.sp, (cp.sp + 1) % 65536}
      [] OTHER -> {}

\* C40: an instruction executed by step() or interrupt() changes memory only
\* at the addresses it names: a store (STA, STAX, SHLD, MOV M,r, MVI M), INR M
\* and DCR M, PUSH, CALL, a taken Ccc, RST and XTHL at their one or two
\* addresses, every other opcode, IN, OUT, a Ccc not taken, RET, POP and the
\* accumulator instructions among them, nowhere; a call that executes nothing
\* changes no byte.
C40_MemoryFrame ==
    /\ (last.op \in {"step", "interrupt"} /\ last.result = "Ok") =>
          ChangedAddresses \subseteq
              NamedAddresses(prev.cpu, last.instruction[1], TargetOf(last.instruction))
    /\ last.result # "Ok" => memory = prev.memory

\* C40: CZ taken with SP = 0x3000 has changed memory[0x2FFF] and
\* memory[0x2FFE] and no other byte
C40_CzChangedTwoBytes ==
    /\ StepExecuted(last, {\hCC})
    /\ FlagOf(prev.cpu, ZERO)
    /\ prev.cpu.sp = \h3000
    /\ ChangedAddresses = {\h2FFF, \h2FFE}

====
